---------------------------- MODULE Spec2Model ----------------------------
(***************************************************************************)
(* Keyword-anchored text placement of the PDF auto filler.                 *)
(*                                                                         *)
(* The module models one PDFProcessor performing one fill_by_keywords      *)
(* call: the planner loop over the value map (override resolution,         *)
(* candidate keywords, page search, fuzzy window matching, anchor          *)
(* computation, statistics) and the three rendering engines with their     *)
(* I/O steps.                                                              *)
(*                                                                         *)
(* Conventions.  A string is a sequence of characters, a character is a    *)
(* one-element TLA+ string; the characters U+FF1A and U+3000 are written   *)
(* FW_COLON and ID_SPACE.  Python's None and Optional values are the empty *)
(* sequence, a present value v is <<v>>.  Lengths, coordinates and offsets *)
(* are integers (points); a similarity ratio 2*M/T is kept as the pair of  *)
(* its numerator and denominator and a threshold is a number of hundredths *)
(* so that every comparison the code makes on floats is made exactly.      *)
(***************************************************************************)
EXTENDS Integers, Sequences, FiniteSets, TLC

\* ---------------------------------------------------------------------
\* Characters and strings
\* ---------------------------------------------------------------------
FW_COLON == "U+FF1A"
ID_SPACE == "U+3000"
LF == "\n"
CR == "\r"
None == <<>>
Some(v) == <<v>>

\* Characters str.strip() removes.
Whitespace == {" ", "\t", LF, CR, ID_SPACE}

Max(a, b) == IF a >= b THEN a ELSE b
Min(a, b) == IF a <= b THEN a ELSE b
SetMax(S) == CHOOSE x \in S : \A y \in S : y <= x
SetMin(S) == CHOOSE x \in S : \A y \in S : x <= y

RECURSIVE LStrip(_)
LStrip(s) ==
    IF s # <<>> /\ Head(s) \in Whitespace THEN LStrip(Tail(s)) ELSE s

RECURSIVE RStrip(_)
RStrip(s) ==
    IF s # <<>> /\ s[Len(s)] \in Whitespace
    THEN RStrip(SubSeq(s, 1, Len(s) - 1))
    ELSE s

\* str.strip()
Strip(s) == RStrip(LStrip(s))

RECURSIVE Concat(_)
\* "".join(parts)
Concat(parts) ==
    IF parts = <<>> THEN <<>> ELSE Head(parts) \o Concat(Tail(parts))

\* ---------------------------------------------------------------------
\* processors/matching.py
\* ---------------------------------------------------------------------
\* The two colons exchanged instead of the full-width one replaced.
ReplaceChar_ColonsExchanged(c) ==
    IF c = FW_COLON THEN ":"
    ELSE IF c = ":" THEN FW_COLON
    ELSE IF c \in {ID_SPACE, LF, CR} THEN " "
    ELSE c

ReplaceChar(c) ==
    IF c = FW_COLON THEN ":"
    ELSE IF c \in {ID_SPACE, LF, CR} THEN " "
    ELSE c

normalize_text(s) == Strip([i \in DOMAIN s |-> ReplaceChar(s[i])])

RECURSIVE RunLen(_, _, _, _, _, _)
\* Length of the common run of a[i:ahi] and b[j:bhi] (0-based, half-open).
RunLen(a, b, i, j, ahi, bhi) ==
    IF i < ahi /\ j < bhi /\ a[i + 1] = b[j + 1]
    THEN 1 + RunLen(a, b, i + 1, j + 1, ahi, bhi)
    ELSE 0

\* difflib.SequenceMatcher.find_longest_match without junk: the longest
\* block, of those the one starting earliest in a, of those earliest in b.
find_longest_match(a, b, alo, ahi, blo, bhi) ==
    LET pairs == (alo .. ahi - 1) \X (blo .. bhi - 1)
        lens  == {RunLen(a, b, p[1], p[2], ahi, bhi) : p \in pairs}
        k     == IF pairs = {} THEN 0 ELSE SetMax(lens)
    IN  IF k = 0 THEN <<alo, blo, 0>>
        ELSE LET i == SetMin({p[1] : p \in
                        {q \in pairs : RunLen(a, b, q[1], q[2], ahi, bhi) = k}})
                 j == SetMin({p[2] : p \in
                        {q \in pairs : q[1] = i
                             /\ RunLen(a, b, q[1], q[2], ahi, bhi) = k}})
             IN  <<i, j, k>>

RECURSIVE MatchCount(_, _, _, _, _, _)
RECURSIVE MatchCountAround(_, _, _, _, _, _, _, _, _)
\* The size k of the longest block <<i, j, k>> plus the matches on its left
\* and on its right.
MatchCountAround(a, b, alo, ahi, blo, bhi, i, j, k) ==
    IF k = 0 THEN 0
    ELSE k
         + (IF alo < i /\ blo < j
            THEN MatchCount(a, b, alo, i, blo, j) ELSE 0)
         + (IF i + k < ahi /\ j + k < bhi
            THEN MatchCount(a, b, i + k, ahi, j + k, bhi) ELSE 0)

\* Sum of the sizes of difflib's matching blocks of a[alo:ahi], b[blo:bhi].
MatchCount(a, b, alo, ahi, blo, bhi) ==
    LET m == find_longest_match(a, b, alo, ahi, blo, bhi)
    IN  MatchCountAround(a, b, alo, ahi, blo, bhi, m[1], m[2], m[3])

\* SequenceMatcher(a=a, b=b).ratio() as <<numerator, denominator>>.
Ratio(a, b) ==
    IF Len(a) + Len(b) = 0 THEN <<1, 1>>
    ELSE <<2 * MatchCount(a, b, 0, Len(a), 0, Len(b)), Len(a) + Len(b)>>

\* r1 > r2 on ratios
RatioGt(r1, r2) == r1[1] * r2[2] > r2[1] * r1[2]
\* r <= thr: the comparison of the threshold test turned around
RatioGeThr_Le(r, thr) == r[1] * 100 <= thr * r[2]
\* r >= thr, thr in hundredths
RatioGeThr(r, thr) == r[1] * 100 >= thr * r[2]

\* The best-so-far replaced by a window that scores the same.
BetterOf_LastWins(best, score, range) ==
    IF ~RatioGt(best[1], score) THEN <<score, Some(range)>> ELSE best

\* if score > best_score: best_score = score; best_range = (i, j)
BetterOf(best, score, range) ==
    IF RatioGt(score, best[1]) THEN <<score, Some(range)>> ELSE best

RECURSIVE ScanWindows_ClosedEnd(_, _, _, _)
\* The window recorded with the index of its last character as its end.
ScanWindows_ClosedEnd(texts, norm_keyword, i, best) ==
    IF i > Len(texts) - Len(norm_keyword) THEN best
    ELSE ScanWindows_ClosedEnd(texts, norm_keyword, i + 1,
             BetterOf(best,
                      Ratio(norm_keyword,
                            Concat(SubSeq(texts, i + 1, i + Len(norm_keyword)))),
                      <<i, i + Len(norm_keyword) - 1>>))

RECURSIVE ScanWindows(_, _, _, _)
\* The for loop of best_fuzzy_window from window start i on (0-based);
\* best is <<score, window>>.
ScanWindows(texts, norm_keyword, i, best) ==
    IF i > Len(texts) - Len(norm_keyword) THEN best
    ELSE ScanWindows(texts, norm_keyword, i + 1,
             BetterOf(best,
                      Ratio(norm_keyword,
                            Concat(SubSeq(texts, i + 1, i + Len(norm_keyword)))),
                      <<i, i + Len(norm_keyword)>>))

\* <<best score, best window>> before the threshold test.
BestScored(chars, keyword) ==
    LET norm_keyword == normalize_text(keyword)
        texts == [n \in DOMAIN chars |-> normalize_text(<<chars[n].text>>)]
    IN  ScanWindows(texts, norm_keyword, 0, <<(<<0, 1>>), None>>)

\* if best_range and best_score >= threshold: return best_range
AcceptBest(best, threshold) ==
    IF best[2] # None /\ RatioGeThr(best[1], threshold) THEN best[2] ELSE None

best_fuzzy_window(chars, keyword, threshold) ==
    IF Len(normalize_text(keyword)) = 0 \/ chars = <<>> THEN None
    ELSE AcceptBest(BestScored(chars, keyword), threshold)

\* (x0, top, x1, bottom) of chars[start:end]
bbox_of_chars(chars, start, end) ==
    LET idx == (start + 1) .. end
    IN  <<SetMin({chars[n].x0 : n \in idx}),
          SetMin({chars[n].top : n \in idx}),
          SetMax({chars[n].x1 : n \in idx}),
          SetMax({chars[n].bottom : n \in idx})>>


\* ---------------------------------------------------------------------
\* components/text.py, components/page.py, components/coords.py
\* ---------------------------------------------------------------------
CONST_ALIAS_SEPARATOR == "|"

\* Index of the first occurrence of character c in s, 0 if absent.
IndexOf(s, c) ==
    IF \E n \in DOMAIN s : s[n] = c
    THEN SetMin({n \in DOMAIN s : s[n] = c})
    ELSE 0

RECURSIVE Split(_, _)
\* str.split(sep) for a one-character separator
Split(s, sep) ==
    LET n == IndexOf(s, sep)
    IN  IF n = 0 THEN <<s>>
        ELSE <<SubSeq(s, 1, n - 1)>> \o Split(SubSeq(s, n + 1, Len(s)), sep)

InSeq(x, xs) == \E n \in DOMAIN xs : xs[n] = x

RECURSIVE CleanParts_KeepDuplicates(_, _)
\* A part seen before is appended again.
CleanParts_KeepDuplicates(parts, result) ==
    IF parts = <<>> THEN result
    ELSE CleanParts_KeepDuplicates(Tail(parts),
             IF Strip(Head(parts)) = <<>> THEN result
             ELSE Append(result, Strip(Head(parts))))

RECURSIVE CleanParts(_, _)
\* The loop of split_aliases: strip, drop empties, keep first occurrences.
CleanParts(parts, result) ==
    IF parts = <<>> THEN result
    ELSE LET t == Strip(Head(parts))
         IN  CleanParts(Tail(parts),
                 IF t = <<>> \/ InSeq(t, result) THEN result
                 ELSE Append(result, t))

\* sep is one character.
split_aliases(keyword, sep) ==
    LET parts  == IF IndexOf(keyword, sep) = 0
                  THEN <<keyword>>
                  ELSE Split(keyword, sep)
        result == CleanParts(parts, <<>>)
    IN  IF result # <<>> THEN result ELSE <<Strip(keyword)>>

UpperChars == <<"A", "B", "C", "D", "E", "F", "G", "H", "I", "J", "K", "L", "M",
                "N", "O", "P", "Q", "R", "S", "T", "U", "V", "W", "X", "Y", "Z">>
LowerChars == <<"a", "b", "c", "d", "e", "f", "g", "h", "i", "j", "k", "l", "m",
                "n", "o", "p", "q", "r", "s", "t", "u", "v", "w", "x", "y", "z">>
\* str.lower()
Lower(s) ==
    [n \in DOMAIN s |->
        IF InSeq(s[n], UpperChars)
        THEN LowerChars[CHOOSE m \in DOMAIN UpperChars : UpperChars[m] = s[n]]
        ELSE s[n]]

DigitChars == <<"0", "1", "2", "3", "4", "5", "6", "7", "8", "9">>
IsDigit(c) == InSeq(c, DigitChars)
DigitVal(c) == (CHOOSE m \in DOMAIN DigitChars : DigitChars[m] = c) - 1

RECURSIVE DigitsVal(_, _)
DigitsVal(s, acc) ==
    IF s = <<>> THEN acc ELSE DigitsVal(Tail(s), 10 * acc + DigitVal(Head(s)))

\* int(s): surrounding whitespace, an optional sign, decimal digits;
\* None stands for ValueError.
ParseInt(s) ==
    LET t    == Strip(s)
        neg  == t # <<>> /\ Head(t) = "-"
        body == IF t # <<>> /\ Head(t) \in {"+", "-"} THEN Tail(t) ELSE t
    IN  IF body = <<>> \/ \E n \in DOMAIN body : ~IsDigit(body[n]) THEN None
        ELSE Some(IF neg THEN 0 - DigitsVal(body, 0) ELSE DigitsVal(body, 0))

\* A range whose start exceeds its end adds nothing.
PartPages_NoSwap(part0, total_pages, one_based) ==
    LET part  == Strip(part0)
        dash  == IndexOf(part, "-")
        shift == IF one_based THEN 1 ELSE 0
        valid == 0 .. (total_pages - 1)
    IN  IF part = <<>> THEN {}
        ELSE IF dash # 0
        THEN LET start_i == ParseInt(SubSeq(part, 1, dash - 1))
                 end_i   == ParseInt(SubSeq(part, dash + 1, Len(part)))
             IN  IF start_i = None \/ end_i = None THEN {}
                 ELSE {i - shift : i \in start_i[1] .. end_i[1]} \cap valid
        ELSE LET v == ParseInt(part)
             IN  IF v = None THEN {} ELSE {v[1] - shift} \cap valid

\* The 0-based indices one part of the selection adds (_add applied to the
\* part's numbers), the empty set when the part is ignored.
PartPages(part0, total_pages, one_based) ==
    LET part  == Strip(part0)
        dash  == IndexOf(part, "-")
        shift == IF one_based THEN 1 ELSE 0
        valid == 0 .. (total_pages - 1)
    IN  IF part = <<>> THEN {}
        ELSE IF dash # 0
        THEN LET start_i == ParseInt(SubSeq(part, 1, dash - 1))
                 end_i   == ParseInt(SubSeq(part, dash + 1, Len(part)))
             IN  IF start_i = None \/ end_i = None THEN {}
                 ELSE {i - shift : i \in Min(start_i[1], end_i[1])
                                          .. Max(start_i[1], end_i[1])}
                      \cap valid
        ELSE LET v == ParseInt(part)
             IN  IF v = None THEN {} ELSE {v[1] - shift} \cap valid

RECURSIVE SortedSeq(_)
\* sorted(set(...))
SortedSeq(S) ==
    IF S = {} THEN <<>> ELSE <<SetMin(S)>> \o SortedSeq(S \ {SetMin(S)})

parse_page_selection(selection, total_pages, one_based) ==
    LET sel   == Lower(Strip(selection))
        parts == Split(sel, ",")
    IN  IF selection = <<>> THEN <<>>
        ELSE IF sel = <<"a", "l", "l">>
        THEN [n \in 1 .. total_pages |-> n - 1]
        ELSE SortedSeq(UNION {PartPages(parts[n], total_pages, one_based)
                                  : n \in DOMAIN parts})

adjust_coords(x, y, offset_x, offset_y) == <<x + offset_x, y + offset_y>>

\* The anchor taken from the top edge of the box (right_of_bbox).
right_of_bbox_baseline_Top(bbox, offset_x, offset_y) ==
    <<bbox[3] + offset_x, bbox[2] + offset_y>>

right_of_bbox_baseline(bbox, offset_x, offset_y) ==
    <<bbox[3] + offset_x, bbox[4] + offset_y>>

_to_reportlab_xy(x, y_top_based, page_height) == <<x, page_height - y_top_based>>

\* ---------------------------------------------------------------------
\* variables.py
\* ---------------------------------------------------------------------
STYLE_OFFSET_X_DEFAULT == 50
STYLE_OFFSET_Y_DEFAULT == 0
CONST_PAGE_INDEX_DEFAULT == 0
CONST_FUZZY_MATCH_THRESHOLD == 60
CONST_MAX_RETRY == 2
\* The defaults of retry_on_exception: delay_s in tenths of a second.
delay_s == 2
backoff == 2
CONST_CLEAN_TEMP_ON_EXIT == TRUE

\* ---------------------------------------------------------------------
\* pdf_processor.py: keyword location and the planner's per-key steps
\* ---------------------------------------------------------------------
\* An override entry without any key (the {} default of the resolver).
EmptyCfg ==
    [page |-> None, offset_x |-> None, offset_y |-> None,
     max_width |-> None, line_spacing |-> None, aliases |-> None]

\* ov.get(field, default)
CfgGet(opt, default) == IF opt = None THEN default ELSE opt[1]

\* Lines 236-251: the KeywordHit of a window of the page, None without one.
KeywordHitOf(page, page_index, window) ==
    IF window = None THEN None
    ELSE LET bbox == bbox_of_chars(page.chars, window[1][1], window[1][2])
             anchor_right ==
                 right_of_bbox_baseline(bbox, STYLE_OFFSET_X_DEFAULT,
                                        STYLE_OFFSET_Y_DEFAULT)
             anchor_rl ==
                 _to_reportlab_xy(anchor_right[1], anchor_right[2], page.height)
         IN  Some([page_index |-> page_index,
                   bbox_pdfplumber |-> bbox,
                   anchor_reportlab |-> anchor_rl])

\* Only the upper end of the range tested: a negative index counts from
\* the last page, as pdf.pages[page_index] does.
find_keyword_coordinates_UpperOnly(pdf, keyword, page_index, fuzzy_threshold) ==
    IF page_index >= Len(pdf) \/ page_index < 0 - Len(pdf) THEN None
    ELSE KeywordHitOf(
             pdf[IF page_index < 0 THEN Len(pdf) + page_index + 1
                 ELSE page_index + 1],
             page_index,
             best_fuzzy_window(
                 pdf[IF page_index < 0 THEN Len(pdf) + page_index + 1
                     ELSE page_index + 1].chars,
                 keyword, fuzzy_threshold))

find_keyword_coordinates(pdf, keyword, page_index, fuzzy_threshold) ==
    IF page_index < 0 \/ page_index >= Len(pdf) THEN None
    ELSE KeywordHitOf(pdf[page_index + 1], page_index,
                      best_fuzzy_window(pdf[page_index + 1].chars, keyword,
                                        fuzzy_threshold))

\* The last entry that shares an alias returned instead of the first.
_resolve_override_for_key_LastShared(k, per_key_overrides) ==
    LET ovs       == per_key_overrides
        exact     == {n \in DOMAIN ovs : ovs[n].name = k}
        k_aliases == split_aliases(k, CONST_ALIAS_SEPARATOR)
        shared    == {n \in DOMAIN ovs :
                         /\ ovs[n].cfg.aliases # None
                         /\ \E m \in DOMAIN k_aliases :
                               InSeq(k_aliases[m], ovs[n].cfg.aliases[1])}
    IN  IF exact # {} THEN <<Some(k), ovs[SetMin(exact)].cfg>>
        ELSE IF shared # {}
        THEN <<Some(ovs[SetMax(shared)].name), ovs[SetMax(shared)].cfg>>
        ELSE <<None, EmptyCfg>>

\* <<canonical name or None, override entry>>
_resolve_override_for_key(k, per_key_overrides) ==
    LET ovs       == per_key_overrides
        exact     == {n \in DOMAIN ovs : ovs[n].name = k}
        k_aliases == split_aliases(k, CONST_ALIAS_SEPARATOR)
        shared    == {n \in DOMAIN ovs :
                         /\ ovs[n].cfg.aliases # None
                         /\ \E m \in DOMAIN k_aliases :
                               InSeq(k_aliases[m], ovs[n].cfg.aliases[1])}
    IN  IF exact # {} THEN <<Some(k), ovs[SetMin(exact)].cfg>>
        ELSE IF shared # {}
        THEN <<Some(ovs[SetMin(shared)].name), ovs[SetMin(shared)].cfg>>
        ELSE <<None, EmptyCfg>>

RECURSIVE AppendNew(_, _)
\* for a in xs: if a not in candidates: candidates.append(a)
AppendNew(candidates, xs) ==
    IF xs = <<>> THEN candidates
    ELSE AppendNew(IF InSeq(Head(xs), candidates) THEN candidates
                   ELSE Append(candidates, Head(xs)),
                   Tail(xs))

\* Candidates from the input key alone, without the configured aliases.
CandidatesOf_KeyOnly(key, canon_key, ov) ==
    split_aliases(key, CONST_ALIAS_SEPARATOR)

\* The candidate keywords of one input key.
CandidatesOf(key, canon_key, ov) ==
    LET c1 == split_aliases(key, CONST_ALIAS_SEPARATOR)
        c2 == IF ov.aliases # None THEN AppendNew(c1, ov.aliases[1]) ELSE c1
    IN  IF canon_key # None /\ canon_key[1] # <<>> /\ ~InSeq(canon_key[1], c2)
        THEN Append(c2, canon_key[1])
        ELSE c2

\* if hit: break, else go on with the rest of the loop
HitOrElse(hit, cand, p, rest) ==
    IF hit # None
    THEN Some([hit |-> hit[1], cand |-> cand, page_index |-> p])
    ELSE rest

RECURSIVE SearchCandidates(_, _, _, _)
\* for cand in candidates: hit = find(...); if hit: break
\* The first candidate that hits on page p with its hit, or None.
SearchCandidates(pdf, candidates, p, thr) ==
    IF candidates = <<>> THEN None
    ELSE HitOrElse(find_keyword_coordinates(pdf, Head(candidates), p, thr),
                   Head(candidates), p,
                   SearchCandidates(pdf, Tail(candidates), p, thr))

\* if found: break, else go on with the next page
FoundOrElse(r, rest) == IF r # None THEN r ELSE rest

RECURSIVE ProbeCandidates(_, _, _, _)
\* The calls of find_keyword_coordinates the inner loop makes on page p, as
\* pairs <<page, candidate>>, the one that hits being the last.
ProbeCandidates(pdf, candidates, p, thr) ==
    IF candidates = <<>> THEN <<>>
    ELSE IF find_keyword_coordinates(pdf, Head(candidates), p, thr) # None
    THEN << <<p, Head(candidates)>> >>
    ELSE << <<p, Head(candidates)>> >>
         \o ProbeCandidates(pdf, Tail(candidates), p, thr)

RECURSIVE ProbePages(_, _, _, _)
\* The calls of find_keyword_coordinates the two loops make, in order.
ProbePages(pdf, candidate_pages, candidates, thr) ==
    IF candidate_pages = <<>> THEN <<>>
    ELSE IF SearchCandidates(pdf, candidates, Head(candidate_pages), thr) # None
    THEN ProbeCandidates(pdf, candidates, Head(candidate_pages), thr)
    ELSE ProbeCandidates(pdf, candidates, Head(candidate_pages), thr)
         \o ProbePages(pdf, Tail(candidate_pages), candidates, thr)

RECURSIVE SearchPagesFor(_, _, _, _)
\* One candidate searched on the pages in order.
SearchPagesFor(pdf, candidate_pages, cand, thr) ==
    IF candidate_pages = <<>> THEN None
    ELSE FoundOrElse(
             SearchCandidates(pdf, <<cand>>, Head(candidate_pages), thr),
             SearchPagesFor(pdf, Tail(candidate_pages), cand, thr))

RECURSIVE SearchPages_CandidateFirst(_, _, _, _)
\* The candidates in the outer loop and the pages in the inner loop.
SearchPages_CandidateFirst(pdf, candidate_pages, candidates, thr) ==
    IF candidates = <<>> THEN None
    ELSE FoundOrElse(
             SearchPagesFor(pdf, candidate_pages, Head(candidates), thr),
             SearchPages_CandidateFirst(pdf, candidate_pages,
                                        Tail(candidates), thr))

RECURSIVE SearchPages(_, _, _, _)
\* for p in candidate_pages: for cand in candidates: ... break at a hit
SearchPages(pdf, candidate_pages, candidates, thr) ==
    IF candidate_pages = <<>> THEN None
    ELSE FoundOrElse(
             SearchCandidates(pdf, candidates, Head(candidate_pages), thr),
             SearchPages(pdf, Tail(candidate_pages), candidates, thr))

\* The page selection taking precedence over the override page.
CandidatePages_SelectionFirst(ov, selected_pages) ==
    IF selected_pages # None THEN selected_pages[1]
    ELSE IF ov.page # None THEN <<ov.page[1]>>
    ELSE <<CONST_PAGE_INDEX_DEFAULT>>

\* The pages searched for a key whose override is ov.
CandidatePages(ov, selected_pages) ==
    IF ov.page # None THEN <<ov.page[1]>>
    ELSE IF selected_pages # None THEN selected_pages[1]
    ELSE <<CONST_PAGE_INDEX_DEFAULT>>

\* One iteration of the planner loop up to the test of hit: the resolved
\* override, the candidates and the first hit (None when the key is missing).
LocateResolved(pdf, canon_key, ov, candidates, selected_pages, thr) ==
    [canon_key |-> canon_key, ov |-> ov, candidates |-> candidates,
     found |-> SearchPages(pdf, CandidatePages(ov, selected_pages),
                           candidates, thr)]

LocateWith(pdf, key, res, selected_pages, thr) ==
    LocateResolved(pdf, res[1], res[2], CandidatesOf(key, res[1], res[2]),
                   selected_pages, thr)

LocateKey(pdf, key, per_key_overrides, selected_pages, thr) ==
    LocateWith(pdf, key, _resolve_override_for_key(key, per_key_overrides),
               selected_pages, thr)

\* The default anchor kept, the offsets of the override ignored.
FinalXY_DefaultAnchor(hit, ov) ==
    adjust_coords(hit.anchor_reportlab[1], hit.anchor_reportlab[2], 0, 0)

\* The DrawText appended for a located key.
FinalXY(hit, ov) ==
    adjust_coords(hit.anchor_reportlab[1], hit.anchor_reportlab[2],
        CfgGet(ov.offset_x, STYLE_OFFSET_X_DEFAULT) - STYLE_OFFSET_X_DEFAULT,
        CfgGet(ov.offset_y, STYLE_OFFSET_Y_DEFAULT) - STYLE_OFFSET_Y_DEFAULT)

DrawTextAt(value, xy, ov) ==
    [text |-> value, x |-> xy[1], y |-> xy[2],
     max_width |-> ov.max_width, line_spacing |-> ov.line_spacing]

DrawTextOf(value, loc) ==
    DrawTextAt(value, FinalXY(loc.found[1].hit, loc.ov), loc.ov)

\* A plan whose new item goes in front of the page's items.
PlanAppend_Front(plan, page_index, item) ==
    [p \in DOMAIN plan \cup {page_index} |->
        IF p = page_index
        THEN <<item>> \o (IF p \in DOMAIN plan THEN plan[p] ELSE <<>>)
        ELSE plan[p]]

\* draw_plan.setdefault(page_index, []).append(item)
PlanAppend(plan, page_index, item) ==
    [p \in DOMAIN plan \cup {page_index} |->
        IF p = page_index
        THEN Append(IF p \in DOMAIN plan THEN plan[p] ELSE <<>>, item)
        ELSE plan[p]]

\* The selection parsed as 0-based page numbers.
SelectedPagesGlobal_ZeroBased(pages, total_pages) ==
    IF pages = None \/ pages[1] = <<>> THEN None
    ELSE LET selected == parse_page_selection(pages[1], total_pages, FALSE)
         IN  IF selected # <<>> THEN Some(selected)
             ELSE Some([n \in 1 .. total_pages |-> n - 1])

\* The global page selection parsed at the start of a fill.
SelectedPagesGlobal(pages, total_pages) ==
    IF pages = None \/ pages[1] = <<>> THEN None
    ELSE LET selected == parse_page_selection(pages[1], total_pages, TRUE)
         IN  IF selected # <<>> THEN Some(selected)
             ELSE Some([n \in 1 .. total_pages |-> n - 1])

\* _fuzzy_thr
FuzzyThr(fuzzy_threshold) == CfgGet(fuzzy_threshold, CONST_FUZZY_MATCH_THRESHOLD)

\* ---------------------------------------------------------------------
\* Inputs of a fill call
\* ---------------------------------------------------------------------
MaxPages == 2
MaxKeys == 2
MaxFaults == 3

\* Glyph metrics of the extracted characters (points).
GlyphAdvance(c) == IF c = "K" THEN 16 ELSE IF c \in {":", FW_COLON} THEN 4 ELSE 8
GlyphTop(c)     == IF c = "K" THEN 20 ELSE IF c \in {":", FW_COLON} THEN 24 ELSE 22
GlyphBottom(c)  == IF c = "2" THEN 33 ELSE IF c \in {":", FW_COLON} THEN 30 ELSE 32
PageWidth == 100
PageHeight == 200

\* The characters of a page holding the text, left to right on one line.
CharsOf(text) ==
    [n \in DOMAIN text |->
        [text |-> text[n], x0 |-> 10 * n, x1 |-> 10 * n + GlyphAdvance(text[n]),
         top |-> GlyphTop(text[n]), bottom |-> GlyphBottom(text[n])]]

PageOf(text) == [width |-> PageWidth, height |-> PageHeight, chars |-> CharsOf(text)]

TxtK1    == <<"K", "1", ":">>
TxtK2    == <<"K", "2", ":">>
TxtFW    == <<"K", "1", FW_COLON>>
TxtSpace == <<"K", " ", "1">>
TxtBoth  == <<"K", "2", ":", "K", "1", ":">>
TxtEmpty == <<>>

KeyK1    == <<"K", "1", ":">>
KeyK2    == <<"K", "2", ":">>
KeyFW    == <<"K", "1", FW_COLON>>
KeySpace == <<"K", " ", "1">>
KeyA1    == <<"A", "1", ":">>
KeyA2    == <<"A", "2", ":">>
KeyPipe  == <<"K", "2", ":", "|", " ", "K", "1", ":">>

RECURSIVE SeqsUpTo(_, _)
\* The sequences over S of length 1 .. n
SeqsUpTo(S, n) ==
    IF n = 0 THEN {}
    ELSE SeqsUpTo(S, n - 1) \cup
         {Append(q, x) : q \in (SeqsUpTo(S, n - 1) \cup {<<>>}), x \in S}

\* Documents: the pages of a document from their texts.
DocsOver(texts, n) ==
    {[k \in DOMAIN q |-> PageOf(q[k])] : q \in
        {r \in SeqsUpTo(texts, n) : Len(r) >= 1}}

\* Value maps: a dict has distinct keys; entry n holds the value "v<n>", or
\* "" where filled allows FALSE.
ValueOf(n) == <<"v", DigitChars[n + 1]>>
KeyMapsOver(keys, n, filled) ==
    {[k \in DOMAIN q |-> [key |-> q[k][1],
                          value |-> IF q[k][2] THEN ValueOf(k) ELSE <<>>]]
        : q \in {r \in SeqsUpTo(keys \X filled, n) :
                    \A a, b \in DOMAIN r : a # b => r[a][1] # r[b][1]}}

OvNone == <<>>
OvAlias ==
    <<[name |-> KeyK1, cfg |-> [EmptyCfg EXCEPT !.aliases = Some(<<KeyK1, KeyA1, KeyA2>>)]]>>
OvOffsets ==
    <<[name |-> KeyK1,
       cfg |-> [EmptyCfg EXCEPT !.offset_x = Some(60), !.offset_y = Some(0 - 5)]]>>
OvPage ==
    <<[name |-> KeyK2, cfg |-> [EmptyCfg EXCEPT !.page = Some(1)]]>>
OvPageNeg ==
    <<[name |-> KeyK1, cfg |-> [EmptyCfg EXCEPT !.page = Some(0 - 1)]]>>
Overrides == {OvNone, OvAlias, OvOffsets, OvPage, OvPageNeg}

Selections ==
    {None, Some(<<>>), Some(<<"1">>), Some(<<"2">>), Some(<<"A", "l", "l">>),
     Some(<<"9">>), Some(<<"1", ",", "2">>)}

Thresholds == {None, Some(0), Some(50), Some(100)}
Engines == {"pymupdf", "reportlab", "raster"}

\* Single keys against single pages over every threshold and override.
MatchInputs ==
    [pdf : DocsOver({TxtK1, TxtK2, TxtFW, TxtSpace, TxtBoth, TxtEmpty}, 1),
     keyword_to_value :
         {<<[key |-> k, value |-> ValueOf(1)]>> :
             k \in {KeyK1, KeyK2, KeyFW, KeySpace, KeyA1, KeyPipe}},
     per_key_overrides : Overrides, pages : {None},
     fuzzy_threshold : Thresholds, engine : {"reportlab"},
     font_file : {TRUE}, fault_budget : {0}]

\* Value maps over documents of several pages and every page selection.
PlanInputs ==
    [pdf : DocsOver({TxtK1, TxtK2}, MaxPages),
     keyword_to_value : KeyMapsOver({KeyK1, KeyK2, KeyFW}, MaxKeys, {TRUE}),
     per_key_overrides : {OvNone, OvPage}, pages : Selections,
     fuzzy_threshold : {Some(100)}, engine : {"reportlab"},
     font_file : {TRUE}, fault_budget : {0}]

\* Alias keys over documents of several pages.
AliasInputs ==
    [pdf : DocsOver({TxtK1, TxtK2, TxtBoth}, MaxPages),
     keyword_to_value : KeyMapsOver({KeyK1, KeyA1, KeyA2}, 1, {TRUE}),
     per_key_overrides : {OvAlias},
     pages : {None, Some(<<"A", "l", "l">>)},
     fuzzy_threshold : Thresholds, engine : {"reportlab"},
     font_file : {TRUE}, fault_budget : {0}]

\* Every engine with and without a font file, with I/O faults.
EngineInputs ==
    [pdf : DocsOver({TxtK1, TxtK2}, 1),
     keyword_to_value : KeyMapsOver({KeyK1, KeyK2}, MaxKeys, BOOLEAN),
     per_key_overrides : {OvNone}, pages : {None},
     fuzzy_threshold : {Some(100)}, engine : Engines,
     font_file : BOOLEAN, fault_budget : 0 .. MaxFaults]

\* ---------------------------------------------------------------------
\* State
\* ---------------------------------------------------------------------
VARIABLES
    args,               \* the arguments and environment of the call
    pc,                 \* position of the call
    idx,                \* position of the planner loop in keyword_to_value
    selected_pages_global,
    draw_plan,          \* page_index -> sequence of DrawText
    total_considered,
    matched_keys,
    missing_keys,
    located,            \* per matched key: the loop's hit, cand, page, ov
    last_fill_stats,
    last_engine_used,
    fontname_to_use,    \* pymupdf: the embedded font, None before
    attempt,            \* retry_on_exception: retries done
    wait,               \* retry_on_exception: the next sleep, in tenths of a second
    slept,              \* the arguments of time.sleep, in order
    temp_overlay,       \* PATH_TEMP_OVERLAY_PDF: "absent" or "present"
    output_pdf,         \* the output path: "absent", "partial", "complete"
    drawn_by,           \* the engines that drew the plan
    failed,             \* the I/O steps that failed, in order
    result              \* "none", "returned", "raised"

vars ==
    <<args, pc, idx, selected_pages_global, draw_plan, total_considered,
      matched_keys, missing_keys, located, last_fill_stats, last_engine_used,
      fontname_to_use, attempt, wait, slept, temp_overlay, output_pdf, drawn_by,
      failed, result>>

planVars ==
    <<draw_plan, total_considered, matched_keys, missing_keys, located>>
ioVars ==
    <<fontname_to_use, attempt, wait, slept, temp_overlay, output_pdf, drawn_by, failed>>

Init ==
    /\ \/ args \in MatchInputs
       \/ args \in PlanInputs
       \/ args \in AliasInputs
       \/ args \in EngineInputs
    /\ pc = "start"
    /\ idx = 1
    /\ selected_pages_global = None
    /\ draw_plan = <<>>
    /\ total_considered = 0
    /\ matched_keys = <<>>
    /\ missing_keys = <<>>
    /\ located = <<>>
    /\ last_fill_stats = None
    /\ last_engine_used = None
    /\ fontname_to_use = None
    /\ attempt = 0
    /\ wait = delay_s
    /\ slept = <<>>
    /\ temp_overlay = "absent"
    /\ output_pdf = "absent"
    /\ drawn_by = {}
    /\ failed = <<>>
    /\ result = "none"

\* ---------------------------------------------------------------------
\* fill_by_keywords: planning
\* ---------------------------------------------------------------------
\* Lines 282-309: page sizes, page selection, threshold, empty plan.
StartFill ==
    /\ pc = "start"
    /\ selected_pages_global' = SelectedPagesGlobal(args.pages, Len(args.pdf))
    /\ pc' = "plan"
    /\ UNCHANGED <<args, idx, last_fill_stats, last_engine_used, result>>
    /\ UNCHANGED planVars
    /\ UNCHANGED ioVars

\* Lines 391-406: the body of the loop for a key with a value, after the
\* search for it.
PlanLocated(key, value, loc) ==
    /\ total_considered' = total_considered + 1
    /\ IF loc.found = None
       THEN /\ missing_keys' = Append(missing_keys, key)
            /\ UNCHANGED <<draw_plan, matched_keys, located>>
       ELSE /\ draw_plan' = PlanAppend(draw_plan, loc.found[1].page_index,
                                       DrawTextOf(value, loc))
            /\ matched_keys' = Append(matched_keys, key)
            /\ located' = Append(located,
                                 [key |-> key, ov |-> loc.ov,
                                  cand |-> loc.found[1].cand,
                                  probes |->
                                      ProbePages(args.pdf,
                                          CandidatePages(loc.ov,
                                              selected_pages_global),
                                          loc.candidates,
                                          FuzzyThr(args.fuzzy_threshold)),
                                  page_index |-> loc.found[1].page_index,
                                  hit |-> loc.found[1].hit])
            /\ UNCHANGED missing_keys

\* One iteration of the loop over keyword_to_value.items().
PlanKey ==
    /\ pc = "plan"
    /\ idx <= Len(args.keyword_to_value)
    /\ IF args.keyword_to_value[idx].value = <<>>
       THEN UNCHANGED planVars
       ELSE PlanLocated(args.keyword_to_value[idx].key,
                        args.keyword_to_value[idx].value,
                        LocateKey(args.pdf, args.keyword_to_value[idx].key,
                                  args.per_key_overrides, selected_pages_global,
                                  FuzzyThr(args.fuzzy_threshold)))
    /\ idx' = idx + 1
    /\ UNCHANGED <<args, pc, selected_pages_global, last_fill_stats,
                   last_engine_used, result>>
    /\ UNCHANGED ioVars

\* A statistics record whose total counts the matched keys only.
FillStats_TotalMatched(total, matched, missing) ==
    [total |-> Len(matched),
     matched |-> Len(matched),
     missing_count |-> Len(missing),
     missing |-> missing,
     matched_keys |-> matched]

\* Lines 413-419: the statistics record.
FillStats(total, matched, missing) ==
    [total |-> total,
     matched |-> Len(matched),
     missing_count |-> Len(missing),
     missing |-> missing,
     matched_keys |-> matched]

\* Lines 408-431: the statistics of the call.
RecordStats ==
    /\ pc = "plan"
    /\ idx > Len(args.keyword_to_value)
    /\ last_fill_stats' =
           Some(FillStats(total_considered, matched_keys, missing_keys))
    /\ pc' = "engine"
    /\ UNCHANGED <<args, idx, selected_pages_global, last_engine_used, result>>
    /\ UNCHANGED planVars
    /\ UNCHANGED ioVars

\* Lines 433-453: the engine chosen by the caller.
SelectEngine ==
    /\ pc = "engine"
    /\ pc' = CASE args.engine = "pymupdf" -> "mu_font"
               [] args.engine = "raster" -> "ra_render"
               [] OTHER -> "rl_build"
    /\ UNCHANGED <<args, idx, selected_pages_global, last_fill_stats,
                   last_engine_used, result>>
    /\ UNCHANGED planVars
    /\ UNCHANGED ioVars

\* ---------------------------------------------------------------------
\* I/O faults
\* ---------------------------------------------------------------------
CanFail == Len(failed) < args.fault_budget

\* What a write that fails may leave at its path.
AfterFailedWrite(before) == {before, "partial"}

\* The call ends with an exception.
Raise(step) ==
    /\ failed' = Append(failed, step)
    /\ result' = "raised"
    /\ pc' = "done"

\* ---------------------------------------------------------------------
\* engines/pymupdf.py
\* ---------------------------------------------------------------------
\* Line 90 and line 134: the engine the function reports.
FallbackEngineUsed_Direct == "pymupdf"
FallbackEngineUsed == "reportlab"
DirectEngineUsed == "pymupdf"

\* Lines 44-56: the font file is embedded.
MuInsertFont ==
    /\ pc = "mu_font"
    /\ args.font_file
    /\ fontname_to_use' = Some("preferred")
    /\ pc' = "mu_draw"
    /\ UNCHANGED <<args, idx, selected_pages_global, last_fill_stats,
                   last_engine_used, result, attempt, wait, slept, temp_overlay, output_pdf,
                   drawn_by, failed>>
    /\ UNCHANGED planVars

\* Lines 50-59: no font file, or insert_font raises: the fallback is taken.
MuNoFont ==
    /\ pc = "mu_font"
    /\ \/ ~args.font_file /\ UNCHANGED failed
       \/ args.font_file /\ CanFail /\ failed' = Append(failed, "insert_font")
    /\ pc' = "mu_fb_build"
    /\ UNCHANGED <<args, idx, selected_pages_global, last_fill_stats,
                   last_engine_used, result, fontname_to_use, attempt, wait, slept,
                   temp_overlay, output_pdf, drawn_by>>
    /\ UNCHANGED planVars

\* Lines 70-83: the fallback builds the overlay.
MuFallbackBuild ==
    /\ pc = "mu_fb_build"
    /\ temp_overlay' = "present"
    /\ drawn_by' = drawn_by \cup {"reportlab"}
    /\ pc' = "mu_fb_merge"
    /\ UNCHANGED <<args, idx, selected_pages_global, last_fill_stats,
                   last_engine_used, result, fontname_to_use, attempt, wait, slept,
                   output_pdf, failed>>
    /\ UNCHANGED planVars

MuFallbackBuildFail ==
    /\ pc = "mu_fb_build"
    /\ CanFail
    /\ temp_overlay' \in {temp_overlay, "present"}
    /\ Raise("build_text_layer")
    /\ UNCHANGED <<args, idx, selected_pages_global, last_fill_stats,
                   last_engine_used, fontname_to_use, attempt, wait, slept, output_pdf,
                   drawn_by>>
    /\ UNCHANGED planVars

\* Lines 84-90: merge, temp cleanup, return of the fallback.
MuFallbackMerge ==
    /\ pc = "mu_fb_merge"
    /\ output_pdf' = "complete"
    /\ temp_overlay' = IF CONST_CLEAN_TEMP_ON_EXIT THEN "absent" ELSE temp_overlay
    /\ last_engine_used' = Some(FallbackEngineUsed)
    /\ result' = "returned"
    /\ pc' = "done"
    /\ UNCHANGED <<args, idx, selected_pages_global, last_fill_stats,
                   fontname_to_use, attempt, wait, slept, drawn_by, failed>>
    /\ UNCHANGED planVars

MuFallbackMergeFail ==
    /\ pc = "mu_fb_merge"
    /\ CanFail
    /\ output_pdf' \in AfterFailedWrite(output_pdf)
    /\ Raise("merge_pdfs")
    /\ UNCHANGED <<args, idx, selected_pages_global, last_fill_stats,
                   last_engine_used, fontname_to_use, attempt, wait, slept, temp_overlay,
                   drawn_by>>
    /\ UNCHANGED planVars

\* Lines 93-125: the lines of the plan are drawn directly.
MuDraw ==
    /\ pc = "mu_draw"
    /\ drawn_by' = drawn_by \cup {"pymupdf"}
    /\ pc' = "mu_save"
    /\ UNCHANGED <<args, idx, selected_pages_global, last_fill_stats,
                   last_engine_used, result, fontname_to_use, attempt, wait, slept,
                   temp_overlay, output_pdf, failed>>
    /\ UNCHANGED planVars

\* A failure of the direct drawing answered by the fallback.
MuDrawFail_FallsBack ==
    /\ pc = "mu_draw"
    /\ CanFail
    /\ drawn_by' = drawn_by \cup {"pymupdf"}
    /\ failed' = Append(failed, "insert_text")
    /\ pc' = "mu_fb_build"
    /\ UNCHANGED <<args, idx, selected_pages_global, last_fill_stats,
                   last_engine_used, result, fontname_to_use, attempt, wait, slept,
                   temp_overlay, output_pdf>>
    /\ UNCHANGED planVars

MuDrawFail ==
    /\ pc = "mu_draw"
    /\ CanFail
    /\ drawn_by' \in {drawn_by, drawn_by \cup {"pymupdf"}}
    /\ Raise("insert_text")
    /\ UNCHANGED <<args, idx, selected_pages_global, last_fill_stats,
                   last_engine_used, fontname_to_use, attempt, wait, slept, temp_overlay,
                   output_pdf>>
    /\ UNCHANGED planVars

\* Lines 127-134: save and return.
MuSave ==
    /\ pc = "mu_save"
    /\ output_pdf' = "complete"
    /\ last_engine_used' = Some(DirectEngineUsed)
    /\ result' = "returned"
    /\ pc' = "done"
    /\ UNCHANGED <<args, idx, selected_pages_global, last_fill_stats,
                   fontname_to_use, attempt, wait, slept, temp_overlay, drawn_by, failed>>
    /\ UNCHANGED planVars

MuSaveFail ==
    /\ pc = "mu_save"
    /\ CanFail
    /\ output_pdf' \in AfterFailedWrite(output_pdf)
    /\ Raise("save")
    /\ UNCHANGED <<args, idx, selected_pages_global, last_fill_stats,
                   last_engine_used, fontname_to_use, attempt, wait, slept, temp_overlay,
                   drawn_by>>
    /\ UNCHANGED planVars

\* ---------------------------------------------------------------------
\* engines/raster.py
\* ---------------------------------------------------------------------
\* font_info is assigned in the page loop, after the pages without items
\* have been skipped.
FontInfoBound(plan, total_pages) ==
    \E p \in 0 .. (total_pages - 1) : p \in DOMAIN plan /\ plan[p] # <<>>

\* Lines 51-117: every page with items gets its image.
RaRender ==
    /\ pc = "ra_render"
    /\ drawn_by' = IF FontInfoBound(draw_plan, Len(args.pdf))
                   THEN drawn_by \cup {"raster"} ELSE drawn_by
    /\ pc' = "ra_save"
    /\ UNCHANGED <<args, idx, selected_pages_global, last_fill_stats,
                   last_engine_used, result, fontname_to_use, attempt, wait, slept,
                   temp_overlay, output_pdf, failed>>
    /\ UNCHANGED planVars

RaRenderFail ==
    /\ pc = "ra_render"
    /\ CanFail
    /\ Raise("insert_image")
    /\ UNCHANGED <<args, idx, selected_pages_global, last_fill_stats,
                   last_engine_used, fontname_to_use, attempt, wait, slept, temp_overlay,
                   output_pdf, drawn_by>>
    /\ UNCHANGED planVars

\* Lines 119-126 and pdf_processor.py 448-450: save, then the return value
\* reads font_info.
RaSave ==
    /\ pc = "ra_save"
    /\ output_pdf' = "complete"
    /\ IF FontInfoBound(draw_plan, Len(args.pdf))
       THEN /\ last_engine_used' = Some("raster")
            /\ result' = "returned"
       ELSE /\ UNCHANGED last_engine_used
            /\ result' = "raised"
    /\ pc' = "done"
    /\ UNCHANGED <<args, idx, selected_pages_global, last_fill_stats,
                   fontname_to_use, attempt, wait, slept, temp_overlay, drawn_by, failed>>
    /\ UNCHANGED planVars

RaSaveFail ==
    /\ pc = "ra_save"
    /\ CanFail
    /\ output_pdf' \in AfterFailedWrite(output_pdf)
    /\ Raise("save")
    /\ UNCHANGED <<args, idx, selected_pages_global, last_fill_stats,
                   last_engine_used, fontname_to_use, attempt, wait, slept, temp_overlay,
                   drawn_by>>
    /\ UNCHANGED planVars

\* ---------------------------------------------------------------------
\* engines/reportlab.py under retry_on_exception
\* ---------------------------------------------------------------------
\* The except branch of the retry wrapper: raise after the last retry,
\* otherwise sleep and try again.
RetryOrRaise_OneMore(step) ==
    /\ failed' = Append(failed, step)
    /\ IF attempt > CONST_MAX_RETRY
       THEN /\ result' = "raised"
            /\ pc' = "done"
            /\ UNCHANGED <<attempt, wait, slept>>
       ELSE /\ slept' = Append(slept, wait)
            /\ wait' = wait * backoff
            /\ attempt' = attempt + 1
            /\ UNCHANGED <<result, pc>>

RetryOrRaise(step) ==
    /\ failed' = Append(failed, step)
    /\ IF attempt >= CONST_MAX_RETRY
       THEN /\ result' = "raised"
            /\ pc' = "done"
            /\ UNCHANGED <<attempt, wait, slept>>
       ELSE /\ slept' = Append(slept, wait)
            /\ wait' = wait * backoff
            /\ attempt' = attempt + 1
            /\ UNCHANGED <<result, pc>>

\* pdf_processor.py 453, 465-486: _build_text_layer succeeds.
RlBuild ==
    /\ pc = "rl_build"
    /\ temp_overlay' = "present"
    /\ drawn_by' = drawn_by \cup {"reportlab"}
    /\ attempt' = 0
    /\ wait' = delay_s
    /\ pc' = "rl_merge"
    /\ UNCHANGED <<args, idx, selected_pages_global, last_fill_stats,
                   last_engine_used, result, fontname_to_use, output_pdf,
                   failed, slept>>
    /\ UNCHANGED planVars

RlBuildFail ==
    /\ pc = "rl_build"
    /\ CanFail
    /\ temp_overlay' \in {temp_overlay, "present"}
    /\ RetryOrRaise("build_text_layer")
    /\ UNCHANGED <<args, idx, selected_pages_global, last_fill_stats,
                   last_engine_used, fontname_to_use, output_pdf, drawn_by>>
    /\ UNCHANGED planVars

\* pdf_processor.py 454-463: _merge_pdfs succeeds, runtime info, cleanup.
RlMerge ==
    /\ pc = "rl_merge"
    /\ output_pdf' = "complete"
    /\ last_engine_used' = Some("reportlab")
    /\ temp_overlay' = IF CONST_CLEAN_TEMP_ON_EXIT THEN "absent" ELSE temp_overlay
    /\ result' = "returned"
    /\ pc' = "done"
    /\ UNCHANGED <<args, idx, selected_pages_global, last_fill_stats,
                   fontname_to_use, attempt, wait, slept, drawn_by, failed>>
    /\ UNCHANGED planVars

RlMergeFail ==
    /\ pc = "rl_merge"
    /\ CanFail
    /\ output_pdf' \in AfterFailedWrite(output_pdf)
    /\ RetryOrRaise("merge_pdfs")
    /\ UNCHANGED <<args, idx, selected_pages_global, last_fill_stats,
                   last_engine_used, fontname_to_use, temp_overlay, drawn_by>>
    /\ UNCHANGED planVars

Next ==
    \/ StartFill
    \/ PlanKey
    \/ RecordStats
    \/ SelectEngine
    \/ MuInsertFont
    \/ MuNoFont
    \/ MuFallbackBuild
    \/ MuFallbackBuildFail
    \/ MuFallbackMerge
    \/ MuFallbackMergeFail
    \/ MuDraw
    \/ MuDrawFail
    \/ MuSave
    \/ MuSaveFail
    \/ RaRender
    \/ RaRenderFail
    \/ RaSave
    \/ RaSaveFail
    \/ RlBuild
    \/ RlBuildFail
    \/ RlMerge
    \/ RlMergeFail

Spec == Init /\ [][Next]_vars

\* ---------------------------------------------------------------------
\* Properties
\* ---------------------------------------------------------------------
kv == args.keyword_to_value
Count(x, seq) == Cardinality({n \in DOMAIN seq : seq[n] = x})
Planned == pc \notin {"start", "plan"}

\* C1: once a fill has passed the statistics step, every key with a
\* non-empty value is in exactly one of matched_keys and missing, once;
\* total = matched + missing_count = the number of keys with a non-empty
\* value; keys with an empty value are in neither list.
C1_StatsPartition ==
    Planned =>
        /\ last_fill_stats # None
        /\ LET st == last_fill_stats[1]
           IN  /\ \A n \in DOMAIN kv :
                     Count(kv[n].key, st.matched_keys) + Count(kv[n].key, st.missing)
                         = IF kv[n].value # <<>> THEN 1 ELSE 0
               /\ st.matched = Len(st.matched_keys)
               /\ st.missing_count = Len(st.missing)
               /\ st.total = st.matched + st.missing_count
               /\ st.total = Cardinality({n \in DOMAIN kv : kv[n].value # <<>>})

\* A fill of one empty and one non-empty value has recorded its statistics.
C1_Witness ==
    /\ Planned
    /\ last_fill_stats # None
    /\ \E n \in DOMAIN kv : kv[n].value = <<>>
    /\ last_fill_stats[1].missing_count = 1

PlanItems ==
    UNION {{<<p, n>> : n \in DOMAIN draw_plan[p]} : p \in DOMAIN draw_plan}
ItemText(it) == draw_plan[it[1]][it[2]].text
\* The position in the value map of the entry whose value is the text.
KvIndexOfText(t) == CHOOSE n \in DOMAIN kv : kv[n].value = t

\* C2: the draw plan holds one item per matched key and none for any other
\* key: the number of items over all pages is the number of matched keys,
\* every item carries the value of a matched key, no two items carry the
\* same key's value, no item carries a missing key's value, and the items
\* of one page are in the order of their keys in the value map.
C2_PlanMatchesMatched ==
    /\ Cardinality(PlanItems) = Len(matched_keys)
    /\ \A it \in PlanItems :
          \E n \in DOMAIN kv :
             /\ kv[n].value = ItemText(it)
             /\ InSeq(kv[n].key, matched_keys)
             /\ ~InSeq(kv[n].key, missing_keys)
    /\ \A a, b \in PlanItems : a # b => ItemText(a) # ItemText(b)
    /\ \A p \in DOMAIN draw_plan :
          \A n, m \in DOMAIN draw_plan[p] :
             n < m => KvIndexOfText(draw_plan[p][n].text)
                          < KvIndexOfText(draw_plan[p][m].text)

\* Two keys were located on the same page.
C2_Witness ==
    /\ Planned
    /\ \E p \in DOMAIN draw_plan : Len(draw_plan[p]) = 2

\* C3: a fill without an I/O fault in which some key was not located (the
\* draw plan may be empty) returns normally on every backend, with the keys
\* that were not located listed as missing.
C3_MissNeverFails ==
    (pc = "done" /\ failed = <<>> /\ missing_keys # <<>>)
        => /\ result = "returned"
           /\ last_fill_stats # None
           /\ last_fill_stats[1].missing = missing_keys

\* C4: a finished fill either returned with a complete output document and
\* statistics, or raised with no document at the output path.
C4_TwoOutcomes ==
    pc = "done" =>
        \/ result = "returned" /\ output_pdf = "complete" /\ last_fill_stats # None
        \/ result = "raised" /\ output_pdf = "absent"

ThresholdGrid == {0, 50, 67, 100}
\* The keys a fill of the state's document, value map, overrides and page
\* selection matches at threshold t.
MatchedAt(t) ==
    {kv[n].key : n \in
        {m \in DOMAIN kv :
            /\ kv[m].value # <<>>
            /\ LocateKey(args.pdf, kv[m].key, args.per_key_overrides,
                         selected_pages_global, t).found # None}}
SeqSet(q) == {q[n] : n \in DOMAIN q}
\* The thresholds at which find_keyword hits the key on page p.
HitThresholds(key, p) ==
    {t \in ThresholdGrid : find_keyword_coordinates(args.pdf, key, p, t) # None}
\* A set of thresholds holds every lower threshold of the grid.
DownwardClosed(H) ==
    \A t2 \in H, t1 \in ThresholdGrid : t1 < t2 => t1 \in H

\* C6: the keys matched by the fill at its threshold t include every key
\* matched at a higher threshold and are among the keys matched at every
\* lower threshold; a find_keyword hit of one of its keys on one of its
\* pages at t2 implies a hit at every t1 < t2.
C6_ThresholdMonotone ==
    pc = "engine" =>
        /\ MatchedAt(FuzzyThr(args.fuzzy_threshold)) = SeqSet(matched_keys)
        /\ \A t \in ThresholdGrid :
              /\ t > FuzzyThr(args.fuzzy_threshold)
                    => MatchedAt(t) \subseteq SeqSet(matched_keys)
              /\ t < FuzzyThr(args.fuzzy_threshold)
                    => SeqSet(matched_keys) \subseteq MatchedAt(t)
        /\ \A n \in DOMAIN kv, p \in 0 .. (Len(args.pdf) - 1) :
              DownwardClosed(HitThresholds(kv[n].key, p))

\* A fill matched a key that a fill at a higher threshold does not match.
C6_Witness ==
    /\ pc = "engine"
    /\ matched_keys # <<>>
    /\ \E t \in ThresholdGrid :
          /\ t > FuzzyThr(args.fuzzy_threshold)
          /\ MatchedAt(t) = {}

\* The key's characters are consecutive characters of the page.
Verbatim(key, chars) ==
    /\ key # <<>>
    /\ \E i \in 0 .. (Len(chars) - Len(key)) :
          \A n \in 1 .. Len(key) : chars[i + n].text = key[n]
\* The normalized text of the characters of a window <<start, end>>.
WindowText(chars, w) ==
    normalize_text([n \in 1 .. (w[2] - w[1]) |-> chars[w[1] + n].text])
HitsVerbatim(chars, key, w) ==
    w # None /\ WindowText(chars, w[1]) = normalize_text(key)

\* C7: a key of the call that is verbatim in the characters of a page is
\* hit by find_keyword on that page at every threshold up to 1.0, and the
\* normalized text of the returned window is the normalized key.
C7_VerbatimFound ==
    pc = "start" =>
        \A n \in DOMAIN kv, p \in DOMAIN args.pdf :
            Verbatim(kv[n].key, args.pdf[p].chars) =>
                \A t \in ThresholdGrid :
                    /\ find_keyword_coordinates(args.pdf, kv[n].key, p - 1, t) # None
                    /\ HitsVerbatim(args.pdf[p].chars, kv[n].key,
                           best_fuzzy_window(args.pdf[p].chars, kv[n].key, t))

ValueOfKey(key) == kv[CHOOSE n \in DOMAIN kv : kv[n].key = key].value
\* The item the planner appended for an entry of located.
ItemOf(L) ==
    draw_plan[L.page_index][CHOOSE m \in DOMAIN draw_plan[L.page_index] :
        draw_plan[L.page_index][m].text = ValueOfKey(L.key)]
\* bbox is the bounding box of the window's characters and the item is
\* anchored right of it on its bottom edge.
AnchoredAt(L, page, w, bbox, item) ==
    /\ w # None
    /\ \A k \in (w[1][1] + 1) .. w[1][2] :
          /\ bbox[1] <= page.chars[k].x0
          /\ bbox[2] <= page.chars[k].top
          /\ bbox[3] >= page.chars[k].x1
          /\ bbox[4] >= page.chars[k].bottom
    /\ \E k \in (w[1][1] + 1) .. w[1][2] : bbox[1] = page.chars[k].x0
    /\ \E k \in (w[1][1] + 1) .. w[1][2] : bbox[2] = page.chars[k].top
    /\ \E k \in (w[1][1] + 1) .. w[1][2] : bbox[3] = page.chars[k].x1
    /\ \E k \in (w[1][1] + 1) .. w[1][2] : bbox[4] = page.chars[k].bottom
    /\ item.x = bbox[3] + (IF L.ov.offset_x = None THEN 50 ELSE L.ov.offset_x[1])
    /\ item.y = page.height - bbox[4]
                    + (IF L.ov.offset_y = None THEN 0 ELSE L.ov.offset_y[1])

\* C8: the item of every located key is at x = bbox.x1 + offset_x and
\* y = page_height - bbox.bottom + offset_y, where bbox is the bounding box
\* of the characters of the matched window and the offsets are those of the
\* resolved override, 50 and 0 without one; no clamping is applied.
C8_AnchorFromBBox ==
    pc = "engine" =>
        \A n \in DOMAIN located :
            AnchoredAt(located[n], args.pdf[located[n].page_index + 1],
                best_fuzzy_window(args.pdf[located[n].page_index + 1].chars,
                                  located[n].cand,
                                  FuzzyThr(args.fuzzy_threshold)),
                located[n].hit.bbox_pdfplumber, ItemOf(located[n]))

\* A key with offsets in its override was located, on characters of
\* different heights, and its anchor lies right of the page.
C8_Witness ==
    /\ pc = "engine"
    /\ \E n \in DOMAIN located :
          /\ located[n].ov.offset_x # None
          /\ located[n].ov.offset_y # None
          /\ ItemOf(located[n]).x > args.pdf[located[n].page_index + 1].width
          /\ located[n].hit.bbox_pdfplumber[2] # located[n].hit.bbox_pdfplumber[4]

\* The pages of the document searched for a key whose override is cfg.
SearchedPages(cfg) ==
    SeqSet(CandidatePages(cfg, selected_pages_global))
        \cap (0 .. (Len(args.pdf) - 1))
\* The state's fill placed the item of the key where a fill locates C.
ConvergesOn(key, locC) ==
    /\ locC.found # None
    /\ \E m \in DOMAIN located :
          /\ located[m].key = key
          /\ located[m].page_index = locC.found[1].page_index
          /\ <<ItemOf(located[m]).x, ItemOf(located[m]).y>>
                 = FinalXY(locC.found[1].hit, locC.ov)
\* Entry e of the overrides lists the key as an alias and its canonical
\* name is verbatim on a searched page.
AliasCase(key, e) ==
    /\ args.per_key_overrides[e].cfg.aliases # None
    /\ InSeq(key, args.per_key_overrides[e].cfg.aliases[1])
    /\ \E p \in SearchedPages(args.per_key_overrides[e].cfg) :
          Verbatim(args.per_key_overrides[e].name, args.pdf[p + 1].chars)
\* No candidate keyword of the key other than the canonical name C reaches
\* the threshold on a searched page.
OnlyCanonicalHits(key, C, cfg) ==
    \A c \in SeqSet(CandidatesOf(key, Some(C), cfg)) \ {C} :
        \A p \in SearchedPages(cfg) :
            find_keyword_coordinates(args.pdf, c, p,
                                     FuzzyThr(args.fuzzy_threshold)) = None

ExpectedPages(pages, n) ==
    CASE pages = None -> {0}
      [] pages = Some(<<>>) -> {0}
      [] pages = Some(<<"1">>) -> {0}
      [] pages = Some(<<"2">>) -> IF n >= 2 THEN {1} ELSE 0 .. (n - 1)
      [] pages = Some(<<"A", "l", "l">>) -> 0 .. (n - 1)
      [] pages = Some(<<"9">>) -> IF n >= 9 THEN {8} ELSE 0 .. (n - 1)
      [] pages = Some(<<"1", ",", "2">>) -> {0, 1} \cap (0 .. (n - 1))
\* The expected pages on which some candidate keyword of the key hits.
PagesWithHit(key, res, pages) ==
    {p \in pages :
        \E c \in SeqSet(CandidatesOf(key, res[1], res[2])) :
            find_keyword_coordinates(args.pdf, c, p,
                                     FuzzyThr(args.fuzzy_threshold)) # None}
MatchedOnFirst(key, hits) ==
    /\ InSeq(key, matched_keys) <=> hits # {}
    /\ InSeq(key, missing_keys) <=> hits = {}
    /\ hits # {} => \E m \in DOMAIN located :
                       located[m].key = key /\ located[m].page_index = SetMin(hits)

\* C10: a key with a value and without an override page is matched iff a
\* candidate keyword of it is located on one of the pages the selection
\* names (page 0 without a selection, all pages for a selection naming no
\* valid page), and its item is on the lowest such page.
C10_PageSelection ==
    pc = "engine" =>
        \A n \in DOMAIN kv :
            (/\ kv[n].value # <<>>
             /\ _resolve_override_for_key(kv[n].key,
                                          args.per_key_overrides)[2].page = None)
            => MatchedOnFirst(kv[n].key,
                   PagesWithHit(kv[n].key,
                       _resolve_override_for_key(kv[n].key, args.per_key_overrides),
                       ExpectedPages(args.pages, Len(args.pdf))))

\* Selection "1" of a document with K1: on page 1 and K2: on page 2 matched
\* K1: and missed K2:.
C10_Witness ==
    /\ pc = "engine"
    /\ args.pages = Some(<<"1">>)
    /\ args.per_key_overrides = OvNone
    /\ Len(args.pdf) = 2
    /\ matched_keys = <<KeyK1>>
    /\ missing_keys = <<KeyK2>>

\* Some candidate keyword of the key hits on page p at the fill's threshold.
HitsOnPage(key, res, p) ==
    \E c \in SeqSet(CandidatesOf(key, res[1], res[2])) :
        find_keyword_coordinates(args.pdf, c, p,
                                 FuzzyThr(args.fuzzy_threshold)) # None
\* The key is matched iff it hits on the override page, and then its item
\* is on that page.
OnlyOnPage(key, res, page) ==
    /\ InSeq(key, matched_keys) <=> HitsOnPage(key, res, page)
    /\ InSeq(key, missing_keys) <=> ~HitsOnPage(key, res, page)
    /\ \A m \in DOMAIN located :
          located[m].key = key =>
              /\ located[m].page_index = page
              /\ page \in DOMAIN draw_plan
              /\ \E i \in DOMAIN draw_plan[page] :
                    draw_plan[page][i].text = ValueOfKey(key)

\* C11: a key with a value whose resolved override names a page is matched
\* iff a candidate keyword of it hits on that page, whatever the page
\* selection, and the item of a hit is on that page.
C11_OverridePageOnly ==
    pc = "engine" =>
        \A n \in DOMAIN kv :
            (/\ kv[n].value # <<>>
             /\ _resolve_override_for_key(kv[n].key,
                                          args.per_key_overrides)[2].page # None)
            => OnlyOnPage(kv[n].key,
                   _resolve_override_for_key(kv[n].key, args.per_key_overrides),
                   _resolve_override_for_key(kv[n].key,
                                             args.per_key_overrides)[2].page[1])

\* The key K2: with override page 1 is missing although every page is
\* selected and page 0 shows K2:.
C11_Witness ==
    /\ pc = "engine"
    /\ args.per_key_overrides = OvPage
    /\ args.pages = Some(<<"A", "l", "l">>)
    /\ Len(args.pdf) >= 2
    /\ Verbatim(KeyK2, args.pdf[1].chars)
    /\ InSeq(KeyK2, missing_keys)

\* The page indices just outside a document of n pages.
OutOfRange(n) == {0 - 1, n, n + 1}

\* C12: find_keyword on a page index outside the document returns no hit;
\* a key whose override page is outside the document is recorded as missing;
\* and every key with a value has been processed: it is matched or missing.
C12_OutOfRangePageIsMiss ==
    pc = "engine" =>
        /\ \A n \in DOMAIN kv, p \in OutOfRange(Len(args.pdf)) :
              find_keyword_coordinates(args.pdf, kv[n].key, p,
                                       FuzzyThr(args.fuzzy_threshold)) = None
        /\ \A n \in DOMAIN kv :
              (/\ kv[n].value # <<>>
               /\ _resolve_override_for_key(kv[n].key,
                                            args.per_key_overrides)[2].page # None
               /\ _resolve_override_for_key(kv[n].key,
                      args.per_key_overrides)[2].page[1]
                      \notin 0 .. (Len(args.pdf) - 1))
              => /\ InSeq(kv[n].key, missing_keys)
                 /\ ~InSeq(kv[n].key, matched_keys)
        /\ \A n \in DOMAIN kv :
              kv[n].value # <<>> =>
                  InSeq(kv[n].key, matched_keys) \/ InSeq(kv[n].key, missing_keys)

\* In a one-page document the first key, whose override page 1 does not
\* exist, is missing and the key after it is matched.
C12_Witness ==
    /\ pc = "engine"
    /\ args.per_key_overrides = OvPage
    /\ Len(args.pdf) = 1
    /\ Len(kv) >= 2
    /\ kv[1].key = KeyK2
    /\ missing_keys = <<KeyK2>>
    /\ matched_keys = <<kv[2].key>>

\* C13: with temp cleanup enabled, the temporary overlay file does not exist
\* once a fill call has ended, whether it returned or raised.
C13_TempOverlayCleaned ==
    (pc = "done" /\ CONST_CLEAN_TEMP_ON_EXIT) => temp_overlay = "absent"

\* ---------------------------------------------------------------------
\* components/coords.py: clamp_baseline
\* ---------------------------------------------------------------------
CONST_CLAMP_MARGIN_DEFAULT == 2

\* The ascent taken below the page top and the descent above the bottom
\* exchanged.
clamp_baseline_Swapped(x, y_baseline, page_width, page_height, font_size, margin, ascent_ratio, descent_ratio) ==
    LET x_clamped == Max(margin, Min(page_width - margin, x))
        ascent    == Max(0, (font_size * ascent_ratio) \div 10)
        descent   == Max(0, (font_size * descent_ratio) \div 10)
        y_min     == margin + ascent
        y_max     == page_height - margin - descent
    IN  IF y_min > y_max
        THEN <<x_clamped, Max(margin, Min(page_height - margin, y_baseline))>>
        ELSE <<x_clamped, Max(y_min, Min(y_max, y_baseline))>>

\* The ratios are numbers of tenths (8 and 2 by default); the font sizes of
\* the calls are multiples of 5, which makes the products exact.
clamp_baseline(x, y_baseline, page_width, page_height, font_size, margin, ascent_ratio, descent_ratio) ==
    LET x_clamped == Max(margin, Min(page_width - margin, x))
        ascent    == Max(0, (font_size * ascent_ratio) \div 10)
        descent   == Max(0, (font_size * descent_ratio) \div 10)
        y_min     == margin + descent
        y_max     == page_height - margin - ascent
    IN  IF y_min > y_max
        THEN <<x_clamped, Max(margin, Min(page_height - margin, y_baseline))>>
        ELSE <<x_clamped, Max(y_min, Min(y_max, y_baseline))>>

\* ---------------------------------------------------------------------
\* processors/layout.py and components/text.py: wrapping
\* ---------------------------------------------------------------------
\* A character outside the ASCII range (ord > 127).
WIDE == "U+4E2D"

\* Line boundaries of str.splitlines() among the characters of the calls.
LineBreaks == {LF, CR}

RECURSIVE SplitLinesFrom(_, _, _)
\* cur is the line being read, lines are the lines already ended; "\r\n" is
\* one boundary and a text that ends with a boundary has no last empty line.
SplitLinesFrom(s, cur, lines) ==
    IF s = <<>>
    THEN IF cur = <<>> THEN lines ELSE Append(lines, cur)
    ELSE IF Len(s) >= 2 /\ s[1] = CR /\ s[2] = LF
    THEN SplitLinesFrom(Tail(Tail(s)), <<>>, Append(lines, cur))
    ELSE IF Head(s) \in LineBreaks
    THEN SplitLinesFrom(Tail(s), <<>>, Append(lines, cur))
    ELSE SplitLinesFrom(Tail(s), Append(cur, Head(s)), lines)

\* str.splitlines()
splitlines(s) == SplitLinesFrom(s, <<>>, <<>>)

\* Fonts of the calls: one registered with the metrics, one unknown to them.
FONT_REGISTERED == "Helvetica"
FONT_UNKNOWN == "NoSuchFont"

RECURSIVE AdvanceSum(_)
\* Advance widths of the registered font, in tenths of the font size.
AdvanceSum(s) ==
    IF s = <<>> THEN 0
    ELSE (IF Head(s) = WIDE THEN 10 ELSE 5) + AdvanceSum(Tail(s))

\* The width wrap_text_lines compares with max_width, in tenths of a point:
\* pdfmetrics.stringWidth, and len(trial) * font_size * 0.6 when it raises.
TrialWidth(trial, font_name, font_size) ==
    IF font_name = FONT_REGISTERED
    THEN AdvanceSum(trial) * font_size
    ELSE Len(trial) * font_size * 6

RECURSIVE WrapLine_StrictFit(_, _, _, _, _, _)
\* A trial as wide as max_width counted as too wide.
WrapLine_StrictFit(raw, current, wrapped, font_name, font_size, max_width) ==
    IF raw = <<>> THEN Append(wrapped, current)
    ELSE IF \/ TrialWidth(Append(current, Head(raw)), font_name, font_size)
                  < 10 * max_width
            \/ current = <<>>
    THEN WrapLine_StrictFit(Tail(raw), Append(current, Head(raw)), wrapped,
                            font_name, font_size, max_width)
    ELSE WrapLine_StrictFit(Tail(raw), <<Head(raw)>>, Append(wrapped, current),
                            font_name, font_size, max_width)

RECURSIVE WrapLine_DropOnFlush(_, _, _, _, _, _)
\* The character that does not fit is lost when the line is flushed.
WrapLine_DropOnFlush(raw, current, wrapped, font_name, font_size, max_width) ==
    IF raw = <<>> THEN Append(wrapped, current)
    ELSE IF \/ TrialWidth(Append(current, Head(raw)), font_name, font_size)
                  <= 10 * max_width
            \/ current = <<>>
    THEN WrapLine_DropOnFlush(Tail(raw), Append(current, Head(raw)), wrapped,
                              font_name, font_size, max_width)
    ELSE WrapLine_DropOnFlush(Tail(raw), <<>>, Append(wrapped, current),
                              font_name, font_size, max_width)

RECURSIVE WrapLine(_, _, _, _, _, _)
\* The inner loop of wrap_text_lines over the characters of one raw line.
WrapLine(raw, current, wrapped, font_name, font_size, max_width) ==
    IF raw = <<>> THEN Append(wrapped, current)
    ELSE IF \/ TrialWidth(Append(current, Head(raw)), font_name, font_size)
                  <= 10 * max_width
            \/ current = <<>>
    THEN WrapLine(Tail(raw), Append(current, Head(raw)), wrapped,
                  font_name, font_size, max_width)
    ELSE WrapLine(Tail(raw), <<Head(raw)>>, Append(wrapped, current),
                  font_name, font_size, max_width)

RECURSIVE WrapLines(_, _, _, _)
\* The outer loop of wrap_text_lines over the raw lines.
WrapLines(raw_lines, font_name, font_size, max_width) ==
    IF raw_lines = <<>> THEN <<>>
    ELSE WrapLine(Head(raw_lines), <<>>, <<>>, font_name, font_size, max_width)
         \o WrapLines(Tail(raw_lines), font_name, font_size, max_width)

\* str(text).splitlines() or [""]
RawLines(lines) == IF lines = <<>> THEN << <<>> >> ELSE lines

\* text and max_width are Optional.
wrap_text_lines(font_name, font_size, text, max_width) ==
    IF text = None THEN <<>>
    ELSE IF max_width = None \/ max_width[1] <= 0
    THEN RawLines(splitlines(text[1]))
    ELSE WrapLines(RawLines(splitlines(text[1])), font_name, font_size,
                   max_width[1])

\* char_w of split_text_by_width in tenths of a point (char_width_ratio 0.6).
CharW(char, font_size) ==
    IF char = WIDE THEN 10 * font_size ELSE 6 * font_size

RECURSIVE estimate_text_width(_, _)
\* In tenths of a point, with the default char_width_ratio 0.6.
estimate_text_width(text, font_size) ==
    IF text = <<>> THEN 0
    ELSE CharW(Head(text), font_size) + estimate_text_width(Tail(text), font_size)

RECURSIVE SplitByWidth(_, _, _, _, _, _)
\* The loop of split_text_by_width and the lines it returns.
SplitByWidth(text, current_line, current_width, lines, max_width, font_size) ==
    IF text = <<>>
    THEN IF current_line # <<>> THEN Append(lines, current_line)
         ELSE IF lines # <<>> THEN lines ELSE << <<>> >>
    ELSE IF current_width + CharW(Head(text), font_size) <= 10 * max_width
    THEN SplitByWidth(Tail(text), Append(current_line, Head(text)),
                      current_width + CharW(Head(text), font_size), lines,
                      max_width, font_size)
    ELSE SplitByWidth(Tail(text), <<Head(text)>>, CharW(Head(text), font_size),
                      IF current_line # <<>> THEN Append(lines, current_line)
                      ELSE lines,
                      max_width, font_size)

split_text_by_width(text, max_width, font_size) ==
    IF text = <<>> \/ max_width <= 0
    THEN IF text # <<>> THEN <<text>> ELSE <<>>
    ELSE SplitByWidth(text, <<>>, 0, <<>>, max_width, font_size)

\* ---------------------------------------------------------------------
\* processors/engines: the lines of a DrawText and where they are drawn
\* ---------------------------------------------------------------------
STYLE_FONT_NAME == "Helvetica"
STYLE_FONT_NAME_CJK_PREFERRED == "SimSun"
STYLE_FONT_NAME_CJK_FALLBACK == "STSong-Light"
STYLE_LINE_SPACING == 14
CONST_RASTER_SCALE == 2

\* pdfmetrics knows the standard font and the font the processor registered
\* (font_registered_name, None when no registration succeeded).
MetricsKnow(font_name, font_registered_name) ==
    font_name = STYLE_FONT_NAME \/ font_registered_name = Some(font_name)

\* The font of the calls whose metrics stand for those of font_name.
MetricFont(font_name, font_registered_name) ==
    IF MetricsKnow(font_name, font_registered_name) THEN FONT_REGISTERED
    ELSE FONT_UNKNOWN

\* line_w in points: pdfmetrics.stringWidth(line, ...) and its fallback
\* len(line) * font_size * 0.6.
LineWidth(line, font_name, font_size) ==
    TrialWidth(line, font_name, font_size) \div 10

\* The limit max_x on the start of a line left out.
PlaceLine_NoWidthCap(line, x, current_y, w, h, font_name, font_size, use_clamp, margin) ==
    IF use_clamp
    THEN [line |-> line,
          x |-> Max(margin, clamp_baseline(x, current_y, w, h, font_size,
                                           margin, 8, 2)[1]),
          y |-> clamp_baseline(x, current_y, w, h, font_size, margin, 8, 2)[2]]
    ELSE [line |-> line, x |-> x, y |-> current_y]

\* The body of `for line in lines`: the drawing-space point of one line.
PlaceLine(line, x, current_y, w, h, font_name, font_size, use_clamp, margin) ==
    IF use_clamp
    THEN [line |-> line,
          x |-> Min(Max(margin, clamp_baseline(x, current_y, w, h, font_size,
                                               margin, 8, 2)[1]),
                    Max(margin, w - margin - LineWidth(line, font_name, font_size))),
          y |-> clamp_baseline(x, current_y, w, h, font_size, margin, 8, 2)[2]]
    ELSE [line |-> line, x |-> x, y |-> current_y]

RECURSIVE PlaceLines(_, _, _, _, _, _, _, _, _, _)
\* for line in lines: ...; current_y -= spacing
PlaceLines(lines, x, current_y, spacing, w, h, font_name, font_size, use_clamp, margin) ==
    IF lines = <<>> THEN <<>>
    ELSE <<PlaceLine(Head(lines), x, current_y, w, h, font_name, font_size,
                     use_clamp, margin)>>
         \o PlaceLines(Tail(lines), x, current_y - spacing, spacing, w, h,
                       font_name, font_size, use_clamp, margin)

\* The lines of one item of the draw plan on a page of size (w, h), wrapped
\* and placed with the metrics of font_name.
LayoutItem(item, w, h, font_name, font_size, style_line_spacing, use_clamp, margin) ==
    PlaceLines(wrap_text_lines(font_name, font_size, Some(item.text),
                               item.max_width),
               item.x, item.y, CfgGet(item.line_spacing, style_line_spacing),
               w, h, font_name, font_size, use_clamp, margin)

\* build_text_layer: measured with the registered font, STYLE_FONT_NAME
\* without one; drawString at the drawing-space point.
RlLines(a) ==
    LET L == LayoutItem(a.item, a.page[1], a.page[2],
                 MetricFont(CfgGet(a.font_registered_name, STYLE_FONT_NAME),
                            a.font_registered_name),
                 a.font_size, STYLE_LINE_SPACING, a.use_clamp, a.margin)
    IN  [n \in DOMAIN L |->
            [line |-> L[n].line, x |-> L[n].x, y |-> L[n].y,
             draw |-> <<L[n].x, L[n].y>>]]

\* fill_with_pymupdf, direct path: measured with preferred_fontname;
\* insert_text at (x, page height - y).
MuLines(a) ==
    LET L == LayoutItem(a.item, a.page[1], a.page[2],
                 MetricFont(STYLE_FONT_NAME_CJK_PREFERRED, a.font_registered_name),
                 a.font_size, STYLE_LINE_SPACING, a.use_clamp, a.margin)
    IN  [n \in DOMAIN L |->
            [line |-> L[n].line, x |-> L[n].x, y |-> L[n].y,
             draw |-> <<L[n].x, a.page[2] - L[n].y>>]]

\* fill_with_raster: measured with "Helvetica"; draw.text at the scaled
\* point, the ascent (0.8 font_size * scale) above the baseline.
RaLines(a) ==
    LET L == LayoutItem(a.item, a.page[1], a.page[2],
                 MetricFont("Helvetica", a.font_registered_name),
                 a.font_size, STYLE_LINE_SPACING, a.use_clamp, a.margin)
    IN  [n \in DOMAIN L |->
            [line |-> L[n].line, x |-> L[n].x, y |-> L[n].y,
             draw |-> <<L[n].x * CONST_RASTER_SCALE,
                        (a.page[2] - L[n].y) * CONST_RASTER_SCALE
                            - (8 * a.font_size * CONST_RASTER_SCALE) \div 10>>]]

\* The lines the engine draws for the item of the call.
EngineLines(engine, a) ==
    IF engine = "reportlab" THEN RlLines(a)
    ELSE IF engine = "pymupdf" THEN MuLines(a)
    ELSE RaLines(a)

\* ---------------------------------------------------------------------
\* Calls of the pure functions
\* ---------------------------------------------------------------------
ClampInputs ==
    [fn : {"clamp_baseline"},
     x : {0 - 5, 2, 10, 48, 60}, y_baseline : {0 - 3, 1, 4, 50, 90, 99, 100},
     page : {<<50, 100>>, <<200, 100>>, <<100, 20>>, <<3, 3>>},
     font_size : {0, 10, 50}, margin : {0, CONST_CLAMP_MARGIN_DEFAULT}]

\* Longest text of a call.
MaxTextLen == 4
WrapChars == {"a", WIDE, LF, CR}
WrapTexts == SeqsUpTo(WrapChars, MaxTextLen) \cup {<<>>}
WrapWidths == {0 - 1, 0, 6, 12, 20}

WrapInputs ==
    [fn : {"wrap_text_lines"}, font_name : {FONT_REGISTERED, FONT_UNKNOWN},
     font_size : {10}, text : {None} \cup {Some(t) : t \in WrapTexts},
     max_width : {None} \cup {Some(w) : w \in WrapWidths}]

SplitWidthInputs ==
    [fn : {"split_text_by_width"}, text : WrapTexts, max_width : WrapWidths,
     font_size : {10}]

AliasChars == {"a", " ", CONST_ALIAS_SEPARATOR, ","}
SplitAliasesInputs ==
    [fn : {"split_aliases"},
     keyword : {None} \cup {Some(<<>>)}
               \cup {Some(t) : t \in SeqsUpTo(AliasChars, MaxTextLen)},
     sep : {CONST_ALIAS_SEPARATOR, ","}]

\* The parts a selection of the calls is made of, each with the numbers it
\* names as the user reads them ("3-1" names 1, 2, 3; "1--1" is the range
\* from -1 to 1; "x", "1-", "-1", "", "ALL" as one part among others name
\* nothing).
SelParts ==
    {<< <<"1">>, {1} >>, << <<"3">>, {3} >>, << <<"0">>, {0} >>,
     << <<"9">>, {9} >>, << <<" ", "2", " ">>, {2} >>,
     << <<"2", "-", "3">>, {2, 3} >>, << <<"3", "-", "1">>, {1, 2, 3} >>,
     << <<"0", "-", "1">>, {0, 1} >>,
     << <<"1", "-", "-", "1">>, {0 - 1, 0, 1} >>,
     << <<"x">>, {} >>, << <<"1", "-">>, {} >>, << <<"-", "1">>, {} >>,
     << <<>>, {} >>, << <<"A", "L", "L">>, {} >>,
     << <<" ", "A", "l", "l", " ">>, {} >>}

\* Most parts of a selection.
MaxSelParts == 2

RECURSIVE SelectionsOf(_)
\* The selections of at most n parts, joined by commas.
SelectionsOf(n) ==
    IF n = 1 THEN {p[1] : p \in SelParts}
    ELSE SelectionsOf(n - 1)
         \cup {s \o <<",">> \o p[1] : s \in SelectionsOf(n - 1), p \in SelParts}

PageSelectionInputs ==
    [fn : {"parse_page_selection"}, selection : SelectionsOf(MaxSelParts),
     total_pages : 0 .. (MaxPages + 1), one_based : BOOLEAN]

NormalizeChars == {"a", ":", FW_COLON, ID_SPACE, LF, " "}
NormalizeInputs ==
    [fn : {"normalize_text"},
     s : SeqsUpTo(NormalizeChars, MaxTextLen) \cup {<<>>}]

WindowChars == {"a", "b", " "}
BestWindowInputs ==
    [fn : {"best_fuzzy_window"},
     chars : {CharsOf(t) : t \in SeqsUpTo(WindowChars, MaxTextLen) \cup {<<>>}},
     keyword : {<<>>, <<" ">>, <<"a">>, <<"c">>, <<"a", "b">>, <<"a", "c">>,
                <<"a", " ", "b">>},
     threshold : {0, 50, 67, 100}]

\* Most entries of an override map.
MaxOverrides == 2
OverrideNames == {KeyK1, KeyK2, KeyFW}
OverrideCfgs ==
    {[EmptyCfg EXCEPT !.aliases = a] :
        a \in {None, Some(<<KeyA1>>), Some(<<KeyA1, KeyA2>>), Some(<<KeyK2>>)}}

\* The override maps of at most MaxOverrides entries, in iteration order;
\* the names of a map are distinct.
OverrideMaps ==
    {ovs \in SeqsUpTo([name : OverrideNames, cfg : OverrideCfgs], MaxOverrides)
             \cup {<<>>} :
        \A n, m \in DOMAIN ovs : n # m => ovs[n].name # ovs[m].name}

ResolveInputs ==
    [fn : {"_resolve_override_for_key"},
     k : {KeyK1, KeyK2, KeyA1, KeyA2, KeyA2 \o <<"|">> \o KeyA1},
     per_key_overrides : OverrideMaps]

\* A hit on a window of a page and the offsets of the key's override.
AnchorInputs ==
    [fn : {"final_anchor"}, text : {TxtK1, TxtBoth},
     window : {<<0, 3>>, <<0, 1>>, <<1, 3>>},
     offset_x : {None, Some(0), Some(STYLE_OFFSET_X_DEFAULT), Some(60)},
     offset_y : {None, Some(STYLE_OFFSET_Y_DEFAULT), Some(0 - 5), Some(7)}]

\* One item of a draw plan laid out by one engine.
LayoutInputs ==
    [fn : {"engine_lines"}, engine : Engines,
     item : [text : {<<>>, <<"a", "a", "a", "a">>, <<"a", LF, WIDE, WIDE>>,
                     <<WIDE>>},
             x : {0 - 5, 10, 95}, y : {1, 100, 199},
             max_width : {None, Some(12), Some(22)},
             line_spacing : {None, Some(5)}],
     page : {<<100, 200>>, <<30, 12>>},
     font_size : {10}, use_clamp : BOOLEAN,
     margin : {CONST_CLAMP_MARGIN_DEFAULT},
     font_registered_name : {None, Some(STYLE_FONT_NAME_CJK_PREFERRED),
                             Some(STYLE_FONT_NAME_CJK_FALLBACK)}]

FnInputs ==
    ClampInputs \cup WrapInputs \cup SplitWidthInputs \cup SplitAliasesInputs
    \cup LayoutInputs
    \cup AnchorInputs
    \cup ResolveInputs
    \cup BestWindowInputs
    \cup NormalizeInputs
    \cup PageSelectionInputs

\* A call of one function: args holds the function and its arguments,
\* result its return value.
FnInit ==
    /\ args \in FnInputs
    /\ pc = "call"
    /\ result = "none"
    /\ idx = 1
    /\ selected_pages_global = None
    /\ draw_plan = <<>>
    /\ total_considered = 0
    /\ matched_keys = <<>>
    /\ missing_keys = <<>>
    /\ located = <<>>
    /\ last_fill_stats = None
    /\ last_engine_used = None
    /\ fontname_to_use = None
    /\ attempt = 0
    /\ wait = delay_s
    /\ slept = <<>>
    /\ temp_overlay = "absent"
    /\ output_pdf = "absent"
    /\ drawn_by = {}
    /\ failed = <<>>

\* The variables a function call leaves alone.
fnIdle ==
    <<args, idx, selected_pages_global, last_fill_stats, last_engine_used,
      planVars, ioVars>>

CallClampBaseline ==
    /\ pc = "call"
    /\ args.fn = "clamp_baseline"
    /\ result' = clamp_baseline(args.x, args.y_baseline, args.page[1],
                                args.page[2], args.font_size, args.margin, 8, 2)
    /\ pc' = "ret"
    /\ UNCHANGED fnIdle

CallWrapTextLines ==
    /\ pc = "call"
    /\ args.fn = "wrap_text_lines"
    /\ result' = wrap_text_lines(args.font_name, args.font_size, args.text,
                                 args.max_width)
    /\ pc' = "ret"
    /\ UNCHANGED fnIdle

CallSplitTextByWidth ==
    /\ pc = "call"
    /\ args.fn = "split_text_by_width"
    /\ result' = split_text_by_width(args.text, args.max_width, args.font_size)
    /\ pc' = "ret"
    /\ UNCHANGED fnIdle

CallSplitAliases ==
    /\ pc = "call"
    /\ args.fn = "split_aliases"
    /\ result' = IF args.keyword = None THEN <<>>
                 ELSE split_aliases(args.keyword[1], args.sep)
    /\ pc' = "ret"
    /\ UNCHANGED fnIdle

CallParsePageSelection ==
    /\ pc = "call"
    /\ args.fn = "parse_page_selection"
    /\ result' = parse_page_selection(args.selection, args.total_pages,
                                      args.one_based)
    /\ pc' = "ret"
    /\ UNCHANGED fnIdle

CallNormalizeText ==
    /\ pc = "call"
    /\ args.fn = "normalize_text"
    /\ result' = normalize_text(args.s)
    /\ pc' = "ret"
    /\ UNCHANGED fnIdle

CallBestFuzzyWindow ==
    /\ pc = "call"
    /\ args.fn = "best_fuzzy_window"
    /\ result' = best_fuzzy_window(args.chars, args.keyword, args.threshold)
    /\ pc' = "ret"
    /\ UNCHANGED fnIdle

CallResolveOverrideForKey ==
    /\ pc = "call"
    /\ args.fn = "_resolve_override_for_key"
    /\ result' = _resolve_override_for_key(args.k, args.per_key_overrides)
    /\ pc' = "ret"
    /\ UNCHANGED fnIdle

\* The anchor of a hit as find_keyword_coordinates computes it, then the
\* offsets of the override applied as fill_by_keywords applies them.
CallFinalAnchor ==
    /\ pc = "call"
    /\ args.fn = "final_anchor"
    /\ result' = FinalXY(KeywordHitOf(PageOf(args.text), 0,
                                      Some(args.window))[1],
                         [EmptyCfg EXCEPT !.offset_x = args.offset_x,
                                          !.offset_y = args.offset_y])
    /\ pc' = "ret"
    /\ UNCHANGED fnIdle

CallEngineLines ==
    /\ pc = "call"
    /\ args.fn = "engine_lines"
    /\ result' = EngineLines(args.engine, args)
    /\ pc' = "ret"
    /\ UNCHANGED fnIdle

FnNext ==
    \/ CallEngineLines
    \/ CallFinalAnchor
    \/ CallResolveOverrideForKey
    \/ CallBestFuzzyWindow
    \/ CallNormalizeText
    \/ CallParsePageSelection
    \/ CallSplitAliases
    \/ CallClampBaseline
    \/ CallWrapTextLines
    \/ CallSplitTextByWidth

SpecFn == FnInit /\ [][FnNext]_vars

Returned(fn) == pc = "ret" /\ args.fn = fn

\* C14 as stated: for all inputs clamp_baseline returns x in
\* [margin, page_width - margin], y in [margin + descent,
\* page_height - margin - ascent] when that interval is not empty (ascent =
\* 0.8 font_size, descent = 0.2 font_size) and y in
\* [margin, page_height - margin] when it is empty.
C14_ClampWithinMargins ==
    Returned("clamp_baseline") =>
        LET margin  == args.margin
            ascent  == (args.font_size * 8) \div 10
            descent == (args.font_size * 2) \div 10
        IN  /\ margin <= result[1]
            /\ result[1] <= args.page[1] - margin
            /\ IF margin + descent <= args.page[2] - margin - ascent
               THEN /\ margin + descent <= result[2]
                    /\ result[2] <= args.page[2] - margin - ascent
               ELSE /\ margin <= result[2]
                    /\ result[2] <= args.page[2] - margin

\* C14 amended: the bounds on x hold when 2 margin <= page_width and x is
\* the margin otherwise; the bounds on y hold in the non-degenerate case,
\* and in the degenerate case when 2 margin <= page_height, y being the
\* margin otherwise.
C14_ClampWithinMarginsOfRoomyPage ==
    Returned("clamp_baseline") =>
        LET margin  == args.margin
            ascent  == (args.font_size * 8) \div 10
            descent == (args.font_size * 2) \div 10
        IN  /\ IF 2 * margin <= args.page[1]
               THEN margin <= result[1] /\ result[1] <= args.page[1] - margin
               ELSE result[1] = margin
            /\ IF margin + descent <= args.page[2] - margin - ascent
               THEN /\ margin + descent <= result[2]
                    /\ result[2] <= args.page[2] - margin - ascent
               ELSE IF 2 * margin <= args.page[2]
               THEN margin <= result[2] /\ result[2] <= args.page[2] - margin
               ELSE result[2] = margin

\* A baseline near the top of the page was lowered by the ascent.
C14_Witness ==
    /\ Returned("clamp_baseline")
    /\ args.y_baseline = 99
    /\ args.page = <<200, 100>>
    /\ args.font_size = 10
    /\ args.margin = 2
    /\ result[2] = 90

\* The text without its line-break characters.
WithoutBreaks(s) == SelectSeq(s, LAMBDA c : c \notin LineBreaks)

RECURSIVE BreakCount(_)
\* Line breaks of the text, "\r\n" being one.
BreakCount(s) ==
    IF s = <<>> THEN 0
    ELSE IF Len(s) >= 2 /\ s[1] = CR /\ s[2] = LF
    THEN 1 + BreakCount(Tail(Tail(s)))
    ELSE (IF Head(s) \in LineBreaks THEN 1 ELSE 0) + BreakCount(Tail(s))

\* Lines of the text: one per line break and one for what follows the last.
LineCount(s) ==
    BreakCount(s) + (IF s # <<>> /\ s[Len(s)] \notin LineBreaks THEN 1 ELSE 0)

\* The lines are the text with its line breaks removed, in order, and are
\* at least as many as the lines of the text.
KeepsCharacters(text, lines) ==
    /\ Concat(lines) = WithoutBreaks(text)
    /\ Len(lines) >= LineCount(text)

Cuts(raw, sep) ==
    {0, Len(raw) + 1} \cup {n \in DOMAIN raw : raw[n] = sep}

\* The trimmed parts of raw between consecutive cuts, by the cut they follow.
TrimmedPartAfter(raw, sep, c) ==
    Strip(SubSeq(raw, c + 1,
                 SetMin({d \in Cuts(raw, sep) : d > c}) - 1))

PartCuts(raw, sep) == Cuts(raw, sep) \ {Len(raw) + 1}

\* The cut after which the part t is first seen.
FirstSeen(raw, sep, t) ==
    SetMin({c \in PartCuts(raw, sep) : TrimmedPartAfter(raw, sep, c) = t})

\* res lists the non-empty trimmed parts once each, in first-seen order.
DistinctPartsInOrder(raw, sep, res) ==
    /\ \A n \in DOMAIN res :
          /\ res[n] # <<>>
          /\ \E c \in PartCuts(raw, sep) : TrimmedPartAfter(raw, sep, c) = res[n]
    /\ \A c \in PartCuts(raw, sep) :
          TrimmedPartAfter(raw, sep, c) # <<>>
              => InSeq(TrimmedPartAfter(raw, sep, c), res)
    /\ \A n, m \in DOMAIN res :
          n < m => /\ res[n] # res[m]
                   /\ FirstSeen(raw, sep, res[n]) < FirstSeen(raw, sep, res[m])

\* C16: split_aliases(raw, sep) returns the parts of raw split on sep,
\* trimmed, without the empty ones and without duplicates, in first-seen
\* order; when no part survives it returns the list of the trimmed raw; the
\* result is not empty for a raw that is not None.
C16_SplitAliases ==
    (Returned("split_aliases") /\ args.keyword # None) =>
        /\ result # <<>>
        /\ IF \E c \in PartCuts(args.keyword[1], args.sep) :
                  TrimmedPartAfter(args.keyword[1], args.sep, c) # <<>>
           THEN DistinctPartsInOrder(args.keyword[1], args.sep, result)
           ELSE result = <<Strip(args.keyword[1])>>

\* "a|a " yields the one alias "a".
C16_Witness ==
    /\ Returned("split_aliases")
    /\ args.keyword = Some(<<"a", "|", "a", " ">>)
    /\ args.sep = CONST_ALIAS_SEPARATOR
    /\ result = << <<"a">> >>

\* The numbers a part of a selection names.
NamedBy(part) == (CHOOSE p \in SelParts : p[1] = part)[2]

\* The numbers the parts of a selection name.
NamedIn(selection) ==
    UNION {NamedBy(Split(selection, ",")[n])
               : n \in DOMAIN Split(selection, ",")}

\* The spellings of "all" among the selections of the calls.
AllSpellings == {<<"A", "L", "L">>, <<" ", "A", "l", "l", " ">>}

\* C17: parse_page_selection returns a strictly ascending list of indices of
\* [0, total_pages); a spelling of "all" yields every page; otherwise the
\* list holds the named numbers, less one when one_based, that are within
\* the range, unparsable parts and numbers out of range adding nothing; the
\* empty selection yields the empty list.
C17_ParsePageSelection ==
    Returned("parse_page_selection") =>
        /\ \A n, m \in DOMAIN result : n < m => result[n] < result[m]
        /\ SeqSet(result) \subseteq 0 .. (args.total_pages - 1)
        /\ IF args.selection \in AllSpellings
           THEN SeqSet(result) = 0 .. (args.total_pages - 1)
           ELSE SeqSet(result) =
                    {v - (IF args.one_based THEN 1 ELSE 0)
                         : v \in NamedIn(args.selection)}
                    \cap (0 .. (args.total_pages - 1))
        /\ args.selection = <<>> => result = <<>>

\* "3-1,x" over two pages: page 3 is out of range, "x" is ignored, pages 1
\* and 2 are kept as indices 0 and 1.
C17_Witness ==
    /\ Returned("parse_page_selection")
    /\ args.selection = <<"3", "-", "1", ",", "x">>
    /\ args.total_pages = 2
    /\ args.one_based
    /\ result = <<0, 1>>

\* C18: normalize_text returns a string for every string, and normalizing
\* what it returned returns the same string.
C18_NormalizeIdempotent ==
    Returned("normalize_text") =>
        /\ result \in Seq(NormalizeChars)
        /\ normalize_text(result) = result

\* A string every step of normalize_text changes: the line feed and the
\* ideographic space become spaces and are stripped, the colon is replaced.
C18_Witness ==
    /\ Returned("normalize_text")
    /\ args.s = <<LF, FW_COLON, "a", ID_SPACE>>
    /\ result = <<":", "a">>

\* ---------------------------------------------------------------------
\* Search order of the planner
\* ---------------------------------------------------------------------
\* The candidate keywords of a key as the claim lists them: the aliases in
\* the key, the configured aliases not among them, the canonical name when
\* it is not among either.
ListedCandidates(key, res) ==
    LET own == split_aliases(key, CONST_ALIAS_SEPARATOR)
        cfg == IF res[2].aliases = None THEN <<>>
               ELSE SelectSeq(res[2].aliases[1], LAMBDA a : ~InSeq(a, own))
    IN  IF res[1] # None /\ ~InSeq(res[1][1], own \o cfg)
        THEN own \o cfg \o res[1]
        ELSE own \o cfg

\* The pairs <<page, candidate>> with the pages in the outer loop and the
\* candidates in the inner loop.
PageMajor(pages, cands) ==
    [k \in 1 .. (Len(pages) * Len(cands)) |->
        <<pages[((k - 1) \div Len(cands)) + 1],
          cands[((k - 1) % Len(cands)) + 1]>>]

\* The searches made for a located key are the first pairs of the order,
\* only the last of them hits, and the item is drawn from that hit.
FirstHitInOrder(loc, order) ==
    /\ loc.probes # <<>>
    /\ Len(loc.probes) <= Len(order)
    /\ loc.probes = SubSeq(order, 1, Len(loc.probes))
    /\ \A k \in DOMAIN loc.probes :
          (find_keyword_coordinates(args.pdf, loc.probes[k][2],
                                    loc.probes[k][1],
                                    FuzzyThr(args.fuzzy_threshold)) # None)
          <=> k = Len(loc.probes)
    /\ loc.probes[Len(loc.probes)] = <<loc.page_index, loc.cand>>
    /\ Some(loc.hit) =
           find_keyword_coordinates(args.pdf, loc.cand, loc.page_index,
                                    FuzzyThr(args.fuzzy_threshold))
    /\ loc.hit.bbox_pdfplumber =
           bbox_of_chars(args.pdf[loc.page_index + 1].chars,
               best_fuzzy_window(args.pdf[loc.page_index + 1].chars, loc.cand,
                                 FuzzyThr(args.fuzzy_threshold))[1][1],
               best_fuzzy_window(args.pdf[loc.page_index + 1].chars, loc.cand,
                                 FuzzyThr(args.fuzzy_threshold))[1][2])
    /\ loc.page_index \in DOMAIN draw_plan
    /\ \E i \in DOMAIN draw_plan[loc.page_index] :
          /\ draw_plan[loc.page_index][i].text = ValueOfKey(loc.key)
          /\ <<draw_plan[loc.page_index][i].x, draw_plan[loc.page_index][i].y>>
                 = FinalXY(loc.hit, loc.ov)

\* The pages searched for a key without override page.
PagesInOrder ==
    IF selected_pages_global # None THEN selected_pages_global[1]
    ELSE <<CONST_PAGE_INDEX_DEFAULT>>

\* C19: for a located key without override page the searches run over the
\* pages in the outer loop and over the candidate keywords (aliases of the
\* key, then new configured aliases, then the canonical name if new) in the
\* inner loop, end with the first pair that hits, and the item is on that
\* pair's page at the anchor of that pair's bounding box; a key without
\* override page is missing only if no pair hits.
C19_SearchOrder ==
    pc = "engine" =>
        /\ \A m \in DOMAIN located :
              located[m].ov.page = None =>
                  FirstHitInOrder(located[m],
                      PageMajor(PagesInOrder,
                          ListedCandidates(located[m].key,
                              _resolve_override_for_key(located[m].key,
                                  args.per_key_overrides))))
        /\ \A n \in DOMAIN kv :
              (/\ InSeq(kv[n].key, missing_keys)
               /\ _resolve_override_for_key(kv[n].key,
                      args.per_key_overrides)[2].page = None)
              => \A k \in DOMAIN PagesInOrder :
                    ~HitsOnPage(kv[n].key,
                                _resolve_override_for_key(kv[n].key,
                                    args.per_key_overrides),
                                PagesInOrder[k])

\* A key found on the second page by its second candidate after four
\* searches that missed.
C19_Witness ==
    /\ pc = "engine"
    /\ \E m \in DOMAIN located :
          /\ located[m].ov.page = None
          /\ Len(located[m].probes) = 5
          /\ located[m].page_index = 1
          /\ located[m].cand # located[m].key

\* ---------------------------------------------------------------------
\* The window best_fuzzy_window returns
\* ---------------------------------------------------------------------
\* Score of the window of chars that starts at i (0-based) against the
\* normalized keyword.
WindowScore(chars, norm_keyword, i) ==
    Ratio(norm_keyword,
          Concat([n \in 1 .. Len(norm_keyword) |->
                     normalize_text(<<chars[i + n].text>>)]))

WindowStarts(chars, norm_keyword) == 0 .. (Len(chars) - Len(norm_keyword))

\* The first window whose score no window exceeds.
MaxWindow(chars, norm_keyword) ==
    SetMin({i \in WindowStarts(chars, norm_keyword) :
               \A j \in WindowStarts(chars, norm_keyword) :
                   ~RatioGt(WindowScore(chars, norm_keyword, j),
                            WindowScore(chars, norm_keyword, i))})

\* The window the claim expects for a keyword that is not empty.
ExpectedWindow(chars, norm_keyword, threshold) ==
    IF WindowStarts(chars, norm_keyword) = {} THEN None
    ELSE IF RatioGeThr(WindowScore(chars, norm_keyword,
                                   MaxWindow(chars, norm_keyword)), threshold)
    THEN Some(<<MaxWindow(chars, norm_keyword),
                MaxWindow(chars, norm_keyword) + Len(norm_keyword)>>)
    ELSE None

\* C20: best_fuzzy_window returns the first maximum-scoring window when the
\* maximum score is >= threshold, threshold 0 with every window scoring 0
\* included, and None otherwise; it returns None when the normalized
\* keyword is empty, when chars is empty and when chars is shorter than the
\* keyword.
C20_BestWindow ==
    Returned("best_fuzzy_window") =>
        result = IF normalize_text(args.keyword) = <<>> THEN None
                 ELSE ExpectedWindow(args.chars, normalize_text(args.keyword),
                                     args.threshold)

\* C21: the window best_fuzzy_window returns has the maximum score and no
\* window that starts before it has the same score.
C21_FirstMaximumWins ==
    (Returned("best_fuzzy_window") /\ result # None) =>
        /\ result[1][1] \in WindowStarts(args.chars, normalize_text(args.keyword))
        /\ \A j \in WindowStarts(args.chars, normalize_text(args.keyword)) :
              /\ ~RatioGt(WindowScore(args.chars, normalize_text(args.keyword), j),
                          WindowScore(args.chars, normalize_text(args.keyword),
                                      result[1][1]))
              /\ j < result[1][1] =>
                    RatioGt(WindowScore(args.chars, normalize_text(args.keyword),
                                        result[1][1]),
                            WindowScore(args.chars, normalize_text(args.keyword), j))

\* "a" in "baa": the windows at 1 and 2 both score 1 and the one at 1 is
\* returned.
C21_Witness ==
    /\ Returned("best_fuzzy_window")
    /\ [n \in DOMAIN args.chars |-> args.chars[n].text] = <<"b", "a", "a">>
    /\ args.keyword = <<"a">>
    /\ result = Some(<<1, 2>>)

\* C22: a window (start, end) that best_fuzzy_window returns satisfies
\* 0 <= start < end <= len(chars) and end - start = len(normalized keyword).
C22_WindowInRange ==
    (Returned("best_fuzzy_window") /\ result # None) =>
        /\ 0 <= result[1][1]
        /\ result[1][1] < result[1][2]
        /\ result[1][2] <= Len(args.chars)
        /\ result[1][2] - result[1][1] = Len(normalize_text(args.keyword))

\* The window of a two-character keyword at the very end of the characters.
C22_Witness ==
    /\ Returned("best_fuzzy_window")
    /\ Len(args.chars) = 4
    /\ args.keyword = <<"a", "b">>
    /\ result = Some(<<2, 4>>)

\* ---------------------------------------------------------------------
\* Override resolution
\* ---------------------------------------------------------------------
\* The entry n of the map has a configured alias among the aliases of k.
SharesAlias(ovs, n, k) ==
    /\ ovs[n].cfg.aliases # None
    /\ SeqSet(ovs[n].cfg.aliases[1])
           \cap SeqSet(split_aliases(k, CONST_ALIAS_SEPARATOR)) # {}

\* C23: an entry named by the key itself is returned; otherwise the first
\* entry in iteration order that shares an alias with the key is returned
\* under its canonical name; otherwise no name and the empty override.
C23_OverrideResolution ==
    Returned("_resolve_override_for_key") =>
        LET ovs == args.per_key_overrides
        IN  /\ \A n \in DOMAIN ovs :
                  ovs[n].name = args.k => result = <<Some(args.k), ovs[n].cfg>>
            /\ (\A n \in DOMAIN ovs : ovs[n].name # args.k) =>
                  /\ \A n \in DOMAIN ovs :
                        (/\ SharesAlias(ovs, n, args.k)
                         /\ \A m \in 1 .. (n - 1) : ~SharesAlias(ovs, m, args.k))
                        => result = <<Some(ovs[n].name), ovs[n].cfg>>
                  /\ (\A n \in DOMAIN ovs : ~SharesAlias(ovs, n, args.k))
                        => result = <<None, EmptyCfg>>

\* The key "A2:|A1:" against two entries that both share an alias with it:
\* the first entry of the map is returned.
C23_Witness ==
    /\ Returned("_resolve_override_for_key")
    /\ args.k = KeyA2 \o <<"|">> \o KeyA1
    /\ Len(args.per_key_overrides) = 2
    /\ args.per_key_overrides[1].cfg.aliases = Some(<<KeyA1>>)
    /\ args.per_key_overrides[2].cfg.aliases = Some(<<KeyA1, KeyA2>>)
    /\ result = <<Some(args.per_key_overrides[1].name),
                  args.per_key_overrides[1].cfg>>

\* ---------------------------------------------------------------------
\* Override offsets
\* ---------------------------------------------------------------------
\* The anchor recomputed from the box with the override's own offsets:
\* right_of_bbox_baseline, then _to_reportlab_xy.
RecomputedAnchor(text, window, offset_x, offset_y) ==
    LET bbox == bbox_of_chars(CharsOf(text), window[1], window[2])
        a    == right_of_bbox_baseline(bbox, offset_x, offset_y)
    IN  _to_reportlab_xy(a[1], a[2], PageHeight)

\* C24 as stated: the default anchor moved by the override delta is the
\* anchor recomputed with the override's offsets, for every offset.
C24_DeltaIsRecomputation ==
    Returned("final_anchor") =>
        result = RecomputedAnchor(args.text, args.window,
                     CfgGet(args.offset_x, STYLE_OFFSET_X_DEFAULT),
                     CfgGet(args.offset_y, STYLE_OFFSET_Y_DEFAULT))

\* C24 amended: the two agree on x for every offset_x, and on y when
\* offset_y is the default 0; in general the delta moves the anchor up by
\* offset_y in drawing space while the recomputation moves it down, so the
\* two y differ by twice offset_y.
C24_DeltaIsRecomputationUpToSign ==
    Returned("final_anchor") =>
        LET r == RecomputedAnchor(args.text, args.window,
                     CfgGet(args.offset_x, STYLE_OFFSET_X_DEFAULT),
                     CfgGet(args.offset_y, STYLE_OFFSET_Y_DEFAULT))
        IN  /\ result[1] = r[1]
            /\ result[2] = r[2] + 2 * CfgGet(args.offset_y, STYLE_OFFSET_Y_DEFAULT)
            /\ CfgGet(args.offset_y, STYLE_OFFSET_Y_DEFAULT) = 0 => result = r

\* An override of offset_x alone: the delta and the recomputation agree.
C24_Witness ==
    /\ Returned("final_anchor")
    /\ args.offset_x = Some(60)
    /\ args.offset_y = None
    /\ args.window = <<0, 3>>
    /\ result = RecomputedAnchor(args.text, args.window, 60, 0)
    /\ result # RecomputedAnchor(args.text, args.window,
                                 STYLE_OFFSET_X_DEFAULT, 0)

\* ---------------------------------------------------------------------
\* Lines and positions across the engines
\* ---------------------------------------------------------------------
\* The lines with their drawing-space points, without the engine's own
\* conversion.
DrawingSpace(L) ==
    [n \in DOMAIN L |-> [line |-> L[n].line, x |-> L[n].x, y |-> L[n].y]]

\* C25: for the same item, page, font size, margin and clamp setting the
\* three engines compute the same lines at the same drawing-space points.
C25_EnginesAgree ==
    Returned("engine_lines") =>
        \A e \in Engines :
            DrawingSpace(EngineLines(e, args)) = DrawingSpace(result)

\* The font whose metrics the engine of the call measures with.
FontOfEngine(a) ==
    IF a.engine = "reportlab"
    THEN MetricFont(CfgGet(a.font_registered_name, STYLE_FONT_NAME),
                    a.font_registered_name)
    ELSE IF a.engine = "pymupdf"
    THEN MetricFont(STYLE_FONT_NAME_CJK_PREFERRED, a.font_registered_name)
    ELSE FONT_REGISTERED

\* The baseline of line n of the item before clamping.
UnclampedY(a, n) ==
    a.item.y - (n - 1) * CfgGet(a.item.line_spacing, STYLE_LINE_SPACING)

\* The interval clamp_baseline allows for y on a page at least two margins
\* high: between descent and ascent inside the margins, and between the
\* margins when that interval is empty.
YInterval(a) ==
    IF a.margin + (2 * a.font_size) \div 10
           <= a.page[2] - a.margin - (8 * a.font_size) \div 10
    THEN <<a.margin + (2 * a.font_size) \div 10,
           a.page[2] - a.margin - (8 * a.font_size) \div 10>>
    ELSE <<a.margin, a.page[2] - a.margin>>

\* C27: with clamping every line starts at x in
\* [margin, max(margin, page_width - margin - line_width)], a line no wider
\* than page_width - 2 margin ends at or before page_width - margin, and
\* its y is the unclamped baseline item.y - i*spacing of that line brought
\* into the interval of clamp_baseline; without clamping the line is at
\* (item.x, item.y - i*spacing).
C27_LinesClamped ==
    Returned("engine_lines") =>
        \A n \in DOMAIN result :
            IF args.use_clamp
            THEN /\ args.margin <= result[n].x
                 /\ result[n].x <=
                        Max(args.margin,
                            args.page[1] - args.margin
                                - LineWidth(result[n].line, FontOfEngine(args),
                                            args.font_size))
                 /\ LineWidth(result[n].line, FontOfEngine(args), args.font_size)
                        <= args.page[1] - 2 * args.margin
                    => result[n].x + LineWidth(result[n].line,
                                               FontOfEngine(args), args.font_size)
                           <= args.page[1] - args.margin
                 /\ result[n].y =
                        Max(YInterval(args)[1],
                            Min(YInterval(args)[2], UnclampedY(args, n)))
            ELSE /\ result[n].x = args.item.x
                 /\ result[n].y = UnclampedY(args, n)

\* A wrapped item near the right margin and the top of the page: its first
\* line is moved left and down, its second line is moved left only.
C27_Witness ==
    /\ Returned("engine_lines")
    /\ args.use_clamp
    /\ args.page = <<100, 200>>
    /\ args.item.x = 95
    /\ args.item.y = 199
    /\ Len(result) = 2
    /\ result[1].x < 95
    /\ result[1].y < 199
    /\ result[2].y = UnclampedY(args, 2)

\* ---------------------------------------------------------------------
\* One backend per fill
\* ---------------------------------------------------------------------
\* The steps of the direct path of fill_with_pymupdf that can fail once
\* the font is embedded.
DirectSteps == {"insert_text", "save"}

\* C26: at most one backend draws in a fill and exactly one in a fill that
\* returns; the overlay backend draws for engine "pymupdf" only when no
\* font was embedded (no font file, or insert_font failed) and then the
\* direct path has drawn nothing; a failure of the direct drawing or saving
\* ends the call with an exception and without a fallback.
C26_OneBackendDraws ==
    /\ Cardinality(drawn_by) <= 1
    /\ (pc = "done" /\ result = "returned") => Cardinality(drawn_by) = 1
    /\ (args.engine = "pymupdf" /\ "reportlab" \in drawn_by) =>
          /\ fontname_to_use = None
          /\ ~args.font_file \/ InSeq("insert_font", failed)
    /\ (args.engine = "pymupdf"
        /\ \E n \in DOMAIN failed : failed[n] \in DirectSteps) =>
          /\ pc = "done"
          /\ result = "raised"
          /\ "reportlab" \notin drawn_by
          /\ last_engine_used = None

\* A fill with a font file whose embedding failed: the overlay backend drew
\* and the call returned.
C26_Witness ==
    /\ pc = "done"
    /\ result = "returned"
    /\ args.engine = "pymupdf"
    /\ args.font_file
    /\ failed = <<"insert_font">>
    /\ drawn_by = {"reportlab"}

\* ---------------------------------------------------------------------
\* Greedy wrapping
\* ---------------------------------------------------------------------
\* The pieces of one input line under the width measure W (tenths of a
\* point): a piece of two or more characters fits max_width, and a piece is
\* followed by another only if the next character would not have fitted.
GreedyPieces(pieces, W(_), max_width) ==
    /\ \A k \in DOMAIN pieces :
          Len(pieces[k]) >= 2 => W(pieces[k]) <= 10 * max_width
    /\ \A k \in 1 .. (Len(pieces) - 1) :
          /\ pieces[k] # <<>>
          /\ pieces[k + 1] # <<>>
          /\ W(Append(pieces[k], Head(pieces[k + 1]))) > 10 * max_width

RECURSIVE GreedyPerLine(_, _, _, _)
\* The lines are, input line by input line, the greedy pieces of that line.
GreedyPerLine(lines, raws, W(_), max_width) ==
    IF raws = <<>> THEN lines = <<>>
    ELSE \E k \in 1 .. Len(lines) :
            /\ Concat(SubSeq(lines, 1, k)) = Head(raws)
            /\ GreedyPieces(SubSeq(lines, 1, k), W, max_width)
            /\ GreedyPerLine(SubSeq(lines, k + 1, Len(lines)), Tail(raws),
                             W, max_width)

\* The lines are the text split at its line breaks and nowhere else.
SplitAtBreaksOnly(text, lines) ==
    /\ Concat(lines) = WithoutBreaks(text)
    /\ Len(lines) = Max(1, LineCount(text))
    /\ \A k \in DOMAIN lines : \A n \in DOMAIN lines[k] :
          lines[k][n] \notin LineBreaks
    /\ lines = RawLines(splitlines(text))

\* wrap_text_lines is greedy per input line.
WrapIsGreedy ==
    (Returned("wrap_text_lines") /\ args.text # None) =>
        IF args.max_width # None /\ args.max_width[1] > 0
        THEN GreedyPerLine(result, RawLines(splitlines(args.text[1])),
                 LAMBDA s : TrialWidth(s, args.font_name, args.font_size),
                 args.max_width[1])
        ELSE SplitAtBreaksOnly(args.text[1], result)

C29_FallbackMeasure ==
    ( /\ Returned("wrap_text_lines")
      /\ args.font_name = FONT_UNKNOWN
      /\ args.text # None
      /\ args.max_width # None
      /\ args.max_width[1] > 0 ) =>
        GreedyPerLine(result, RawLines(splitlines(args.text[1])),
            LAMBDA s : estimate_text_width(s, args.font_size),
            args.max_width[1])

\* ---------------------------------------------------------------------
\* Retries
\* ---------------------------------------------------------------------
RECURSIVE Power(_, _)
Power(b, n) == IF n = 0 THEN 1 ELSE b * Power(b, n - 1)

\* The sleeps of one wrapped operation whose first n invocations failed.
SleepsOf(n) ==
    LET retried == IF n <= CONST_MAX_RETRY THEN n ELSE CONST_MAX_RETRY
    IN  [k \in 1 .. retried |-> delay_s * Power(backoff, k - 1)]

FailuresOf(step) == Count(step, failed)

\* C30: under the overlay engine, _build_text_layer and _merge_pdfs are each
\* invoked at most r + 1 = 3 times; a success ends the operation's
\* invocations (merging is attempted only after building, and a call that
\* returned has at most r failures of each); the k-th retry of an operation
\* is preceded by a sleep of delay_s * backoff^(k-1); the call raises exactly
\* when the (r + 1)-th invocation of one of them has failed.
C30_RetryAtMostRPlusOne ==
    LET r == CONST_MAX_RETRY
        b == FailuresOf("build_text_layer")
        m == FailuresOf("merge_pdfs")
    IN  args.engine = "reportlab" =>
          /\ r = 2
          /\ b <= r + 1 /\ m <= r + 1
          /\ failed = [k \in 1 .. (b + m) |->
                          IF k <= b THEN "build_text_layer" ELSE "merge_pdfs"]
          /\ m > 0 => b <= r /\ "reportlab" \in drawn_by
          /\ result = "returned" => b <= r /\ m <= r
          /\ slept = SleepsOf(b) \o SleepsOf(m)
          /\ result = "raised" <=> (b = r + 1 \/ m = r + 1)
          /\ pc \in {"rl_build", "rl_merge"} =>
                /\ attempt = (IF pc = "rl_build" THEN b ELSE m)
                /\ wait = delay_s * Power(backoff, attempt)

\* The third invocation of _build_text_layer failed after sleeps of 0.2 s
\* and 0.4 s, and the call raised.
C30_Witness ==
    /\ args.engine = "reportlab"
    /\ failed = <<"build_text_layer", "build_text_layer", "build_text_layer">>
    /\ slept = <<2, 4>>
    /\ attempt = 2
    /\ result = "raised"

=============================================================================
